---- MODULE Spec2Model ----
(***************************************************************************)
(* Model of the DTE side of the esp_lte_modem driver (esp_modem.c):        *)
(* the CMUX deframer run by the UART event task, the one-shot handler      *)
(* dispatch into the DCE, and the synchronous send surface that blocks on  *)
(* the binary semaphore process_sem.                                       *)
(*                                                                         *)
(* Bytes are integers 0..255.  The reassembly buffer is the fixed array    *)
(* esp_dte->buffer: a function on 0..line_buffer_size-1 whose cells keep   *)
(* their old content when buffer_len shrinks (the code never clears it).   *)
(***************************************************************************)
EXTENDS Integers, Sequences, FiniteSets, TLC

VARIABLES
    buffer,             \* esp_dte->buffer, [0..line_buffer_size-1 -> Byte]
    buffer_len,         \* esp_dte->buffer_len
    handle_line,        \* dce->handle_line        (NULL or a handler)
    handle_cmux_frame,  \* dce->handle_cmux_frame  (NULL or a handler)
    receive_cb,         \* esp_dte->receive_cb     (NULL or a callback)
    process_sem,        \* binary semaphore: 0 = empty, 1 = given
    dce_state,          \* dce->state
    mode,               \* dce->mode
    wire,               \* bytes held by the UART driver, not yet read
    reader_pc,          \* position of uart_event_task_entry
    caller_pc,          \* position of the caller thread
    ret,                \* value returned by the caller's last send
    env,                \* what the DCE's handlers answer in this run
    tx,                 \* the writes made with uart_write_bytes, in order
    call_arg,           \* argument of the caller's last call
    pattern_det,        \* UART pattern detection interrupt enabled
    rx_intr,            \* UART RX interrupt enabled
    allocated,          \* frame buffers malloc'ed by send_cmux_cmd, not freed
    dce,                \* dte->dce               (NULL or the bound DCE)
    dispatched,         \* history: frames handed to esp_dte_handle_cmux_frame
    log,                \* history: calls made into the DCE / event loop
    hist                \* history: bookkeeping used to state the claims

vars == <<hist, tx, dispatched, log, buffer, buffer_len, handle_line,
          handle_cmux_frame, receive_cb, process_sem, dce_state, mode, wire,
          reader_pc, caller_pc, ret, env, call_arg, pattern_det, rx_intr,
          allocated, dce>>

-----------------------------------------------------------------------------
(* Program constants *)

SOF_MARKER == 249
FCS_POLYNOMIAL == 224
FCS_INIT_VALUE == 255
FCS_GOOD_VALUE == 207
PF == 16
FT_SABM == 47
FT_UA == 99
FT_UIH == 239

CR_CHAR == 13
LF_CHAR == 10

NULL == "NULL"
ESP_OK == "ESP_OK"
ESP_FAIL == "ESP_FAIL"

(* Capacity of the reassembly buffer (config->line_buffer_size). *)
line_buffer_size == 24

-----------------------------------------------------------------------------
(* Bounds of the model *)

MaxFrames == 2      \* elements (frames / garbage) in one received stream
MaxSends == 2       \* sends issued by the caller in Command mode
MaxRx == 2          \* lines the modem emits in Command mode
MaxCmuxSends == 1   \* sends issued by the caller in CMUX mode
MaxCmuxRx == 1      \* frames the modem emits while a caller is modelled
MaxCalls == 2       \* calls made by the caller when it is modelled alone
MaxData == 255      \* longest input of send_cmux_data
MaxPppRx == 5       \* PPP frames the modem emits in raw PPP mode

-----------------------------------------------------------------------------
(* Byte arithmetic *)

Byte == 0..255

RECURSIVE Xor(_, _)
Xor(a, b) ==
    IF a = 0 THEN b
    ELSE IF b = 0 THEN a
    ELSE (((a % 2) + (b % 2)) % 2) + (2 * Xor(a \div 2, b \div 2))

(* A bit step that shifts towards the high bit whatever reversed says. *)
Crc8Bit_msb(crc, polynomial, reversed) ==
    IF crc >= 128 THEN Xor((crc * 2) % 256, polynomial) ELSE (crc * 2) % 256

Crc8Bit(crc, polynomial, reversed) ==
    IF reversed
    THEN IF crc % 2 = 1 THEN Xor(crc \div 2, polynomial) ELSE crc \div 2
    ELSE IF crc >= 128 THEN Xor((crc * 2) % 256, polynomial)
                       ELSE (crc * 2) % 256

(* The inner loop of crc8: j bit steps.  crc is a byte at every step; the  *)
(* test on it makes TLC evaluate it step by step.                         *)
RECURSIVE Crc8Bits(_, _, _, _)
Crc8Bits(crc, polynomial, reversed, j) ==
    IF j = 0 \/ crc \notin Byte THEN crc
    ELSE Crc8Bits(Crc8Bit(crc, polynomial, reversed), polynomial, reversed, j - 1)

RECURSIVE crc8(_, _, _, _)
crc8(src, polynomial, initial_value, reversed) ==
    IF src = <<>> THEN initial_value
    ELSE LET crc == crc8(SubSeq(src, 1, Len(src) - 1), polynomial,
                         initial_value, reversed)
         IN  Crc8Bits(Xor(crc, src[Len(src)]), polynomial, reversed, 8)

(* Returns true if the string contains only CR or LF. *)
is_only_cr_lf(str) ==
    \A i \in 1..Len(str) : str[i] = CR_CHAR \/ str[i] = LF_CHAR

-----------------------------------------------------------------------------
(* Memory *)

(* Bytes cells[from .. from+n-1] of an array, as a sequence. *)
Bytes(cells, from, n) == [i \in 1..n |-> cells[from + i - 1]]

(* The C string that starts at buffer[off]: strlen() runs to the first NUL, *)
(* past buffer_len into stale cells, and past the end of the allocation     *)
(* into whatever the heap holds there (heap: the bytes that follow it).     *)
RECURSIVE CString(_, _, _)
CString(cells, heap, off) ==
    LET b == IF off < line_buffer_size THEN cells[off]
             ELSE IF off - line_buffer_size < Len(heap)
                  THEN heap[off - line_buffer_size + 1]
                  ELSE 0
    IN  IF b = 0 THEN <<>> ELSE <<b>> \o CString(cells, heap, off + 1)

(* A copy that stops one byte short of n. *)
memcpy_short(cells, from, n) ==
    [i \in DOMAIN cells |-> IF i < n - 1 THEN cells[i + from] ELSE cells[i]]

(* memcpy(buffer, &buffer[from], n) with from > 0, copied front to back. *)
memcpy(cells, from, n) ==
    [i \in DOMAIN cells |-> IF i < n THEN cells[i + from] ELSE cells[i]]

(* uart_read_bytes(port, &buffer[at], Len(bytes)): the bytes land at at.. *)
uart_read_bytes(cells, at, bytes) ==
    [i \in DOMAIN cells |->
        IF i >= at /\ i < at + Len(bytes) THEN bytes[i - at + 1] ELSE cells[i]]

-----------------------------------------------------------------------------
(* CMUX frame layout: SOF, address, control, (len << 1) + 1, payload, FCS, SOF *)

Frame(address, control, payload) ==
    LET header == <<address, control, (Len(payload) * 2 + 1) % 256>>
    IN  <<SOF_MARKER>> \o header \o payload \o
        <<255 - crc8(header, FCS_POLYNOMIAL, FCS_INIT_VALUE, TRUE), SOF_MARKER>>

(* Commands a caller passes to the sends: "AT\r", the dial string          *)
(* "ATD*99***1#\r", the dial string without its CR, the empty string, and  *)
(* texts of 127 and of 128 characters.                                     *)
CmdAt == <<65, 84, 13>>
CmdDial == <<65, 84, 68, 42, 57, 57, 42, 42, 42, 49, 35, 13>>
CmdDialNoCr == SubSeq(CmdDial, 1, 11)
CmdEmpty == <<>>
Cmd127 == [i \in 1..127 |-> IF i = 127 THEN 13 ELSE 65]
Cmd128 == [i \in 1..128 |-> IF i = 128 THEN 13 ELSE 65]
Commands == {CmdAt, CmdDial, CmdDialNoCr, CmdEmpty, Cmd127, Cmd128}

(* A SABM frame without the poll bit. *)
sabm_frame_no_pf(dlci) ==
    LET header == <<((dlci * 4) % 256) + 3, FT_SABM, 1>>
    IN  <<SOF_MARKER>> \o header \o
        <<255 - crc8(header, FCS_POLYNOMIAL, FCS_INIT_VALUE, TRUE), SOF_MARKER>>

(* esp_modem_dte_send_sabm: the 6 bytes it writes (frame[] is char). *)
sabm_frame(dlci) ==
    LET header == <<((dlci * 4) % 256) + 3, FT_SABM + PF, 1>>
    IN  <<SOF_MARKER>> \o header \o
        <<255 - crc8(header, FCS_POLYNOMIAL, FCS_INIT_VALUE, TRUE), SOF_MARKER>>

(* A command frame that is always built on DLCI 2. *)
cmux_cmd_frame_dlci2(command) ==
    LET header == <<(2 * 4) + 1, FT_UIH, ((Len(command) * 2) + 1) % 256>>
    IN  <<SOF_MARKER>> \o header \o command \o
        <<255 - crc8(header, FCS_POLYNOMIAL, FCS_INIT_VALUE, TRUE), SOF_MARKER>>

(* A command frame whose length byte lacks the EA bit. *)
cmux_cmd_frame_no_ea(command) ==
    LET address == IF command = CmdDial THEN (1 * 4) + 1 ELSE (2 * 4) + 1
        header  == <<address, FT_UIH, (Len(command) * 2) % 256>>
    IN  <<SOF_MARKER>> \o header \o command \o
        <<255 - crc8(header, FCS_POLYNOMIAL, FCS_INIT_VALUE, TRUE), SOF_MARKER>>

(* esp_modem_dte_send_cmux_cmd: the 6 + strlen(command) bytes it writes. *)
cmux_cmd_frame(command) ==
    LET address == IF command = CmdDial THEN (1 * 4) + 1 ELSE (2 * 4) + 1
        header  == <<address, FT_UIH, ((Len(command) * 2) + 1) % 256>>
    IN  <<SOF_MARKER>> \o header \o command \o
        <<255 - crc8(header, FCS_POLYNOMIAL, FCS_INIT_VALUE, TRUE), SOF_MARKER>>

(* A fragmenter that cuts at 128 bytes. *)
RECURSIVE cmux_data_frames_128(_, _)
cmux_data_frames_128(data, length_to_transmit) ==
    IF length_to_transmit = 0 THEN <<>>
    ELSE LET length == Len(data)
             current_frame_length ==
                 IF length_to_transmit > 128 THEN 128
                 ELSE length_to_transmit % 256
             header == <<(1 * 4) + 1, FT_UIH,
                         ((current_frame_length * 2) + 1) % 256>>
             frame  == <<SOF_MARKER>> \o header \o
                       SubSeq(data, length - length_to_transmit + 1,
                              length - length_to_transmit + current_frame_length)
                       \o <<255 - crc8(header, FCS_POLYNOMIAL, FCS_INIT_VALUE,
                                       TRUE),
                            SOF_MARKER>>
         IN  <<frame>> \o cmux_data_frames_128(data, length_to_transmit
                                                      - current_frame_length)

(* esp_modem_dte_send_cmux_data: the frames it writes, one write each,     *)
(* while length_to_transmit bytes of data remain.                          *)
RECURSIVE cmux_data_frames(_, _)
cmux_data_frames(data, length_to_transmit) ==
    IF length_to_transmit = 0 THEN <<>>
    ELSE LET length == Len(data)
             current_frame_length ==
                 IF length_to_transmit > 127 THEN 127
                 ELSE length_to_transmit % 256
             header == <<(1 * 4) + 1, FT_UIH,
                         ((current_frame_length * 2) + 1) % 256>>
             frame  == <<SOF_MARKER>> \o header \o
                       SubSeq(data, length - length_to_transmit + 1,
                              length - length_to_transmit + current_frame_length)
                       \o <<255 - crc8(header, FCS_POLYNOMIAL, FCS_INIT_VALUE,
                                       TRUE),
                            SOF_MARKER>>
         IN  <<frame>> \o cmux_data_frames(data, length_to_transmit
                                                  - current_frame_length)

-----------------------------------------------------------------------------
(* The DTE/DCE state the reader task works on, as one record, so that the   *)
(* reader's functions are operators from record to record.                  *)

Dte ==
    [buffer |-> buffer, buffer_len |-> buffer_len,
     handle_line |-> handle_line, handle_cmux_frame |-> handle_cmux_frame,
     receive_cb |-> receive_cb, process_sem |-> process_sem,
     dispatched |-> dispatched, log |-> log, gave |-> FALSE,
     calls |-> hist.calls]

(* esp_modem_dte_process_cmd_done: xSemaphoreGive on the binary semaphore. *)
esp_modem_dte_process_cmd_done(d) ==
    [d EXCEPT !.process_sem = 1, !.gave = TRUE]

(* A handler whose failure goes unnoticed. *)
HandlerResult_ok(e) == ESP_OK

(* What a DCE handler does when the reader calls it.  e is its behaviour in *)
(* this run: "ok_done" (recognises the response, calls process_cmd_done,    *)
(* returns ESP_OK), "ok" (returns ESP_OK) or "fail" (returns ESP_FAIL).     *)
HandlerResult(e) == IF e = "fail" THEN ESP_FAIL ELSE ESP_OK

(* History: the call made for the frame dispatched last. *)
NoteFrameCall(d, name) ==
    [d EXCEPT !.calls = Append(@, [handler |-> name,
                                   frame |-> Len(d.dispatched)])]

CallHandler(d, name, arg, e) ==
    LET d1 == [NoteFrameCall(d, name) EXCEPT !.log = Append(@, <<name, arg>>)]
    IN  IF e = "ok_done" THEN esp_modem_dte_process_cmd_done(d1) ELSE d1

(* esp_event_post_to(..., ESP_MODEM_EVENT_UNKNOWN, payload, ...) *)
PostUnknown(d, payload) ==
    [d EXCEPT !.log = Append(@, <<"ESP_MODEM_EVENT_UNKNOWN", payload>>)]

(* The first four bytes of "cmux frame invalid". *)
CmuxFrameInvalid == <<99, 109, 117, 120>>

IsUIH(type) == type = FT_UIH \/ type = 255

(* esp_dte_handle_cmux_frame: dispatch of the frame at buffer[0]. *)
esp_dte_handle_cmux_frame(d, e) ==
    LET frame  == d.buffer
        dlci   == frame[1] \div 4
        type   == frame[2]
        length == frame[3] \div 2
        d0     == [d EXCEPT !.dispatched = Append(@, Bytes(frame, 0, length + 6))]
    IN  IF d0.handle_cmux_frame # NULL
        THEN LET d1 == CallHandler(d0, "handle_cmux_frame",
                                   Bytes(frame, 0, length + 6), e.hcf)
             IN  IF HandlerResult(e.hcf) = ESP_OK THEN d1
                 ELSE PostUnknown(d1, CmuxFrameInvalid)
        ELSE IF IsUIH(type) /\ dlci = 1 /\ d0.handle_line # NULL
                /\ Len(CString(frame, e.heap, 6)) > 2
        THEN \* CONNECT message on DLCI 1
             LET d1 == CallHandler(d0, "handle_line",
                                   CString(frame, e.heap, 6), e.hl)
             IN  IF HandlerResult(e.hl) = ESP_OK
                 THEN [d1 EXCEPT !.handle_line = NULL]
                 ELSE PostUnknown(d1, CmuxFrameInvalid)
        ELSE IF IsUIH(type) /\ dlci = 2 /\ d0.handle_line # NULL
        THEN LET cells == [frame EXCEPT ![4 + length] = 0]
                 d1    == [d0 EXCEPT !.buffer = cells]
             IN  IF Len(CString(cells, e.heap, 6)) > 2
                 THEN LET d2 == CallHandler(d1, "handle_line",
                                            CString(cells, e.heap, 6), e.hl)
                      IN  IF HandlerResult(e.hl) = ESP_OK THEN d2
                          ELSE PostUnknown(d2, CmuxFrameInvalid)
                 ELSE d1
        ELSE IF IsUIH(type) /\ length > 0 /\ dlci = 1 /\ d0.receive_cb # NULL
        THEN [NoteFrameCall(d0, "receive_cb") EXCEPT
                !.log = Append(@, <<"receive_cb", Bytes(frame, 4, length)>>)]
        ELSE d0

RECURSIVE esp_handle_uart_frame(_, _)

(* A deframer that compares buffer_len with the payload length only. *)
esp_handle_uart_frame_early(d, e) ==
    LET fl == d.buffer[3] \div 2
        frame_length_full == fl + 6
    IN  IF d.buffer_len < 5 THEN d
        ELSE IF d.buffer[0] # SOF_MARKER THEN d
        ELSE IF d.buffer_len < fl THEN d
        ELSE IF d.buffer[frame_length_full - 1] # SOF_MARKER THEN d
        ELSE LET d1 == esp_dte_handle_cmux_frame(d, e)
             IN  IF d1.buffer_len > frame_length_full
                 THEN LET frame_length_next == d1.buffer_len - frame_length_full
                          d2 == [d1 EXCEPT
                                   !.buffer = memcpy(@, frame_length_full,
                                                     frame_length_next),
                                   !.buffer_len = frame_length_next]
                      IN  IF d2.buffer_len > 4
                          THEN esp_handle_uart_frame(d2, e)
                          ELSE d2
                 ELSE [d1 EXCEPT !.buffer_len = 0]

(* A deframer that throws the buffer away when the closing SOF is missing. *)
esp_handle_uart_frame_drop(d, e) ==
    LET fl == d.buffer[3] \div 2
        frame_length_full == fl + 6
    IN  IF d.buffer_len < 5 THEN d
        ELSE IF d.buffer[0] # SOF_MARKER THEN d
        ELSE IF d.buffer_len < frame_length_full THEN d
        ELSE IF d.buffer[frame_length_full - 1] # SOF_MARKER
        THEN [d EXCEPT !.buffer_len = 0]
        ELSE LET d1 == esp_dte_handle_cmux_frame(d, e)
             IN  IF d1.buffer_len > frame_length_full
                 THEN LET frame_length_next == d1.buffer_len - frame_length_full
                          d2 == [d1 EXCEPT
                                   !.buffer = memcpy(@, frame_length_full,
                                                     frame_length_next),
                                   !.buffer_len = frame_length_next]
                      IN  IF d2.buffer_len > 4
                          THEN esp_handle_uart_frame(d2, e)
                          ELSE d2
                 ELSE [d1 EXCEPT !.buffer_len = 0]

(* esp_handle_uart_frame: extract frames from the front of the buffer. *)
esp_handle_uart_frame(d, e) ==
    LET fl == d.buffer[3] \div 2
        frame_length_full == fl + 6
    IN  IF d.buffer_len < 5 THEN d
        ELSE IF d.buffer[0] # SOF_MARKER THEN d
        ELSE IF d.buffer_len < frame_length_full THEN d
        ELSE IF d.buffer[frame_length_full - 1] # SOF_MARKER THEN d
        ELSE LET d1 == esp_dte_handle_cmux_frame(d, e)
             IN  IF d1.buffer_len > frame_length_full
                 THEN LET frame_length_next == d1.buffer_len - frame_length_full
                          d2 == [d1 EXCEPT
                                   !.buffer = memcpy(@, frame_length_full,
                                                     frame_length_next),
                                   !.buffer_len = frame_length_next]
                      IN  IF d2.buffer_len > 4
                          THEN esp_handle_uart_frame(d2, e)
                          ELSE d2
                 ELSE [d1 EXCEPT !.buffer_len = 0]

(* A read that puts the new bytes at the start of the buffer. *)
esp_handle_uart_data_front(d, bytes, e) ==
    LET d1 == [d EXCEPT
                 !.buffer = uart_read_bytes(@, 0, bytes),
                 !.buffer_len = (@ + Len(bytes)) % 65536]
    IN  IF d1.buffer_len > 0 /\ d1.buffer[0] = SOF_MARKER
        THEN esp_handle_uart_frame(d1, e)
        ELSE d1

(* esp_handle_uart_data: append what the UART holds, then deframe if the    *)
(* buffer starts with SOF.  bytes must fit (see UartData).                  *)
esp_handle_uart_data(d, bytes, e) ==
    LET d1 == [d EXCEPT
                 !.buffer = uart_read_bytes(@, d.buffer_len, bytes),
                 !.buffer_len = (@ + Len(bytes)) % 65536]
    IN  IF d1.buffer_len > 0 /\ d1.buffer[0] = SOF_MARKER
        THEN esp_handle_uart_frame(d1, e)
        ELSE d1

-----------------------------------------------------------------------------
(* What the modem can put on the wire in the model *)

CRLF == <<CR_CHAR, LF_CHAR>>

\* "\r\nOK\r\n" on DLCI 2 (AT channel)
FrameOk == Frame(11, FT_UIH, CRLF \o <<79, 75>> \o CRLF)
\* "\r\n\r\n\r\n" on DLCI 2: text of CR and LF bytes only
FrameCrLf == Frame(11, FT_UIH, CRLF \o CRLF \o CRLF)
\* three PPP bytes on DLCI 1 (data channel)
FramePpp == Frame(7, FT_UIH, <<126, 33, 126>>)
\* "\r\nCONNECT 115200\r\n" on DLCI 1: the modem's answer to the dial string
ConnectText == <<67, 79, 78, 78, 69, 67, 84, 32, 49, 49, 53, 50, 48, 48>>
FrameConnect == Frame(7, FT_UIH, CRLF \o ConnectText \o CRLF)
\* UA|PF on DLCI 0 (control channel), no payload
FrameUa == Frame(3, FT_UA + PF, <<>>)
\* FramePpp with its closing SOF damaged
FrameBadTail == SubSeq(FramePpp, 1, Len(FramePpp) - 1) \o <<0>>
\* one byte of line noise
Garbage == <<65>>

ValidFrames == {FrameOk, FrameCrLf, FramePpp, FrameUa, FrameConnect}
WireElements == ValidFrames \cup {FrameBadTail, Garbage}

RECURSIVE Concat(_)
Concat(ss) == IF ss = <<>> THEN <<>> ELSE Head(ss) \o Concat(Tail(ss))

(* Sequences of 1..n elements of S. *)
SeqsUpTo(S, n) == UNION {[1..k -> S] : k \in 1..n}

HandlerBehaviours == {"ok_done", "ok", "fail"}

(* Heap content behind the buffer: unknown to the program. *)
Heaps == {<<>>, <<85>>}

Envs == [hl : HandlerBehaviours, hcf : HandlerBehaviours, heap : Heaps]

-----------------------------------------------------------------------------
(* Initial states *)

(* The reception discipline esp_modem_dte_init (Command mode) and          *)
(* esp_modem_dte_change_mode (PPP, CMUX) leave behind.                     *)
InitUart ==
    /\ pattern_det = (mode = "MODEM_COMMAND_MODE")
    /\ rx_intr = (mode # "MODEM_COMMAND_MODE")

(* esp_modem_dte_init: calloc'ed buffer, buffer_len = 0, semaphore empty. *)
InitDte ==
    /\ buffer = [i \in 0..(line_buffer_size - 1) |-> 0]
    /\ buffer_len = 0
    /\ process_sem = 0
    /\ reader_pc = "idle"
    /\ caller_pc = "idle"
    /\ ret = NULL
    /\ dce_state = "MODEM_STATE_SUCCESS"
    /\ tx = <<>>
    /\ allocated = 0
    /\ dce = "dce"
    /\ dispatched = <<>>
    /\ log = <<>>

(* A DTE in CMUX mode with the handlers of one transaction registered, and  *)
(* a stream of frames (and noise) about to arrive.                          *)
InitDeframe ==
    /\ InitDte
    /\ mode = "MODEM_CMUX_MODE"
    /\ InitUart
    /\ call_arg = NULL
    /\ handle_line \in {NULL, "handler"}
    /\ handle_cmux_frame \in {NULL, "handler"}
    /\ receive_cb \in {NULL, "on_receive"}
    /\ env \in Envs
    /\ env.hl # "ok"
    /\ env.hcf # "ok"
    \* one representative of the configurations the reader cannot tell apart:
    \* an unregistered handler has no behaviour, a registered
    \* handle_cmux_frame takes every frame before handle_line is looked at,
    \* and strlen leaves the buffer only when the stream fills it
    /\ handle_line = NULL => env.hl = "ok_done"
    /\ handle_cmux_frame = NULL => env.hcf = "ok_done"
    /\ handle_cmux_frame # NULL => handle_line = NULL
    /\ \E els \in SeqsUpTo(WireElements, MaxFrames) :
          /\ Len(Concat(els)) <= line_buffer_size
          /\ (handle_line = NULL \/ Len(Concat(els)) < line_buffer_size)
                => env.heap = <<>>
          /\ wire = Concat(els)
          /\ hist = [elements |-> els, stream |-> Concat(els), delivered |-> 0,
                     handle_line0 |-> handle_line,
                     handle_cmux_frame0 |-> handle_cmux_frame,
                     whole |-> FALSE, done_in_call |-> FALSE, sends |-> 0,
                     rx |-> 0, op |-> NULL, hl_at_call |-> NULL,
                     timed_out |-> FALSE, late_done |-> FALSE,
                     budget |-> 0, calls |-> <<>>]

-----------------------------------------------------------------------------
(* Reader task: UART_DATA event *)

(* History: process_cmd_done was called in this step (gave). *)
NoteDone(h, gave) ==
    [h EXCEPT !.done_in_call = @ \/ gave,
              !.late_done = @ \/ (gave /\ h.timed_out /\ caller_pc = "idle")]

SetDte(d) ==
    /\ buffer' = d.buffer
    /\ buffer_len' = d.buffer_len
    /\ handle_line' = d.handle_line
    /\ handle_cmux_frame' = d.handle_cmux_frame
    /\ process_sem' = d.process_sem
    /\ dispatched' = d.dispatched
    /\ log' = d.log

(* uart_event_task_entry, case UART_DATA: the n bytes the driver holds are  *)
(* read behind buffer_len.  Nothing bounds n by the room left: past the     *)
(* capacity the write leaves the allocation.                                *)
UartData(n) ==
    /\ reader_pc = "idle"
    /\ mode # "MODEM_COMMAND_MODE"
    /\ n \in 1..Len(wire)
    /\ wire' = SubSeq(wire, n + 1, Len(wire))
    /\ IF buffer_len + n > line_buffer_size
       THEN \* the cells up to the capacity are written, the rest of the
            \* read lands behind the allocation; buffer_len counts them all
            /\ reader_pc' = "overflow"
            /\ buffer' = uart_read_bytes(buffer, buffer_len, SubSeq(wire, 1, n))
            /\ buffer_len' = (buffer_len + n) % 65536
            /\ hist' = [hist EXCEPT !.delivered = @ + n]
            /\ UNCHANGED <<handle_line, handle_cmux_frame, process_sem,
                           dispatched, log>>
       ELSE LET d == esp_handle_uart_data(Dte, SubSeq(wire, 1, n), env)
            IN  /\ SetDte(d)
                /\ reader_pc' = "idle"
                /\ hist' = [NoteDone(hist, d.gave) EXCEPT
                              !.calls = d.calls,
                              !.delivered = @ + n,
                              !.whole = (hist.delivered = 0
                                         /\ n = Len(hist.stream))]
    /\ UNCHANGED <<receive_cb, dce_state, mode, caller_pc, ret, env>>
    /\ UNCHANGED <<tx, call_arg, pattern_det, rx_intr, allocated, dce>>

NextDeframe == \E n \in 1..line_buffer_size : UartData(n)

SpecDeframe == InitDeframe /\ [][NextDeframe]_vars

-----------------------------------------------------------------------------
(* Reader task: UART_PATTERN_DET event (Command mode) *)

\* "OK\r\n"
LineOk == <<79, 75>> \o CRLF
\* "\r\n"
LineBlank == CRLF
\* "\r\r\n"
LineCrCrLf == <<CR_CHAR>> \o CRLF

Lines == {LineOk, LineBlank, LineCrCrLf}

(* 0-based position of the first '\n' in the driver's ring, -1 if none. *)
RECURSIVE PatternPos(_)
PatternPos(bytes) ==
    IF bytes = <<>> THEN -1
    ELSE IF Head(bytes) = LF_CHAR THEN 0
    ELSE LET p == PatternPos(Tail(bytes)) IN IF p = -1 THEN -1 ELSE p + 1

(* esp_handle_uart_pattern with esp_dte_handle_line up to the test of      *)
(* dce->handle_line: the line is read to buffer[0..], NUL-terminated, and  *)
(* filtered; with no handler the UNKNOWN event is posted; with one, the    *)
(* call through the pointer is the reader's next step.                     *)
UartPattern ==
    /\ reader_pc = "idle"
    /\ mode = "MODEM_COMMAND_MODE"
    /\ PatternPos(wire) # -1
    /\ LET pos      == PatternPos(wire)
           read_len == IF pos < line_buffer_size - 1 THEN pos + 1
                       ELSE line_buffer_size - 1
           cells    == [uart_read_bytes(buffer, 0, SubSeq(wire, 1, read_len))
                          EXCEPT ![read_len] = 0]
           line     == CString(cells, env.heap, 0)
       IN  /\ wire' = SubSeq(wire, read_len + 1, Len(wire))
           /\ buffer' = cells
           /\ hist' = [hist EXCEPT !.delivered = @ + read_len]
           /\ IF Len(line) > 2 /\ ~is_only_cr_lf(line)
              THEN IF handle_line = NULL
                   THEN /\ log' = Append(log, <<"ESP_MODEM_EVENT_UNKNOWN", line>>)
                        /\ reader_pc' = "idle"
                   ELSE /\ log' = log
                        /\ reader_pc' = "handle_line_call"
              ELSE /\ log' = log
                   /\ reader_pc' = "idle"
    /\ UNCHANGED <<buffer_len, handle_line, handle_cmux_frame, receive_cb,
                   process_sem, dce_state, mode, caller_pc, ret, env,
                   dispatched>>
    /\ UNCHANGED <<tx, call_arg, pattern_det, rx_intr, allocated, dce>>

(* esp_dte_handle_line, the call dce->handle_line(dce, line).  The caller  *)
(* may have cleared the pointer since the test; the field is not volatile, *)
(* so the call goes through the value read at the test or through a value  *)
(* read again, and a null read again is a call through a null pointer.     *)
handle_line_call ==
    /\ reader_pc = "handle_line_call"
    /\ \/ /\ handle_line = NULL
          /\ reader_pc' = "crashed"
          /\ log' = log
       \/ /\ reader_pc' = "in_handle_line"
          /\ log' = Append(log, <<"handle_line", CString(buffer, env.heap, 0)>>)
    /\ UNCHANGED <<buffer, buffer_len, handle_line, handle_cmux_frame,
                   receive_cb, process_sem, dce_state, mode, wire, caller_pc,
                   ret, env, dispatched, hist>>
    /\ UNCHANGED <<tx, call_arg, pattern_det, rx_intr, allocated, dce>>

(* The DCE's handler runs to its end (it may call process_cmd_done) and    *)
(* esp_dte_handle_line returns; a failed handler posts the UNKNOWN event.  *)
handle_line_return ==
    /\ reader_pc = "in_handle_line"
    /\ reader_pc' = "idle"
    /\ process_sem' = IF env.hl = "ok_done" THEN 1 ELSE process_sem
    /\ hist' = NoteDone(hist, env.hl = "ok_done")
    /\ log' = IF HandlerResult(env.hl) = ESP_OK THEN log
              ELSE Append(log, <<"ESP_MODEM_EVENT_UNKNOWN",
                                 CString(buffer, env.heap, 0)>>)
    /\ UNCHANGED <<buffer, buffer_len, handle_line, handle_cmux_frame,
                   receive_cb, dce_state, mode, wire, caller_pc, ret, env,
                   dispatched>>
    /\ UNCHANGED <<tx, call_arg, pattern_det, rx_intr, allocated, dce>>

-----------------------------------------------------------------------------
(* The modem *)

(* The modem sends one more line (Command mode) or frame (CMUX mode). *)
ModemEmit(el) ==
    /\ hist.rx < (IF mode = "MODEM_COMMAND_MODE" THEN MaxRx
                  ELSE IF mode = "MODEM_CMUX_MODE" THEN MaxCmuxRx
                  ELSE MaxPppRx)
    /\ wire' = wire \o el
    /\ hist' = [hist EXCEPT !.rx = @ + 1,
                            !.elements = Append(@, el),
                            !.stream = @ \o el]
    /\ UNCHANGED <<buffer, buffer_len, handle_line, handle_cmux_frame,
                   receive_cb, process_sem, dce_state, mode, reader_pc,
                   caller_pc, ret, env, dispatched, log>>
    /\ UNCHANGED <<tx, call_arg, pattern_det, rx_intr, allocated, dce>>

-----------------------------------------------------------------------------
(* Caller thread: the DCE layer and the synchronous sends *)

callerUnchanged ==
    UNCHANGED <<buffer, buffer_len, receive_cb, mode, wire, reader_pc, env,
                pattern_det, rx_intr, dispatched, log, dce>>

SendsLeft == hist.sends < hist.budget

(* The DCE layer registers the one-shot handler of the next transaction. *)
DceRegister(field) ==
    /\ caller_pc = "idle"
    /\ SendsLeft
    /\ \/ /\ field = "handle_line"
          /\ handle_line = NULL
          /\ handle_line' = "handler"
          /\ UNCHANGED handle_cmux_frame
       \/ /\ field = "handle_cmux_frame"
          /\ handle_cmux_frame = NULL
          /\ handle_cmux_frame' = "handler"
          /\ UNCHANGED handle_line
    /\ UNCHANGED <<process_sem, dce_state, caller_pc, ret, hist, tx,
                   call_arg, allocated>>
    /\ callerUnchanged

(* The one-shot handler a send clears at its err label. *)
ClearedField(op) ==
    IF op = "send_cmd" THEN "handle_line" ELSE "handle_cmux_frame"

(* A synchronous send up to its xSemaphoreTake: dce->state = PROCESSING,   *)
(* the bytes are written, the caller blocks on process_sem.  With no DCE   *)
(* bound, MODEM_CHECK(dce) jumps to err, where the handler field of the    *)
(* DCE is cleared: a store through a null pointer, which traps or lands in *)
(* low memory and lets the send return ESP_FAIL.                           *)
SendCall(op, a, bytes) ==
    /\ caller_pc = "idle"
    /\ SendsLeft
    /\ call_arg' = a
    /\ hist' = [hist EXCEPT !.sends = @ + 1, !.op = op, !.done_in_call = FALSE,
                            !.hl_at_call = handle_line]
    /\ IF dce = NULL
       THEN /\ log' = Append(log, <<"store through null dce",
                                    ClearedField(op)>>)
            /\ \/ caller_pc' = "crashed" /\ ret' = NULL
               \/ caller_pc' = "idle" /\ ret' = ESP_FAIL
            /\ UNCHANGED <<dce_state, tx, allocated>>
       ELSE /\ dce_state' = "MODEM_STATE_PROCESSING"
            /\ tx' = Append(tx, bytes)
            /\ caller_pc' = op
            /\ ret' = NULL
            /\ allocated' = IF op = "send_cmux_cmd" THEN allocated + 1
                            ELSE allocated
            /\ log' = log
    /\ UNCHANGED <<handle_line, handle_cmux_frame, process_sem>>
    /\ UNCHANGED <<buffer, buffer_len, receive_cb, mode, wire, reader_pc, env,
                   pattern_det, rx_intr, dispatched, dce>>

(* xSemaphoreTake succeeded, or timed out with the semaphore still empty. *)
SemaphoreTaken(op) ==
    /\ caller_pc = op
    /\ process_sem = 1
    /\ process_sem' = 0
    /\ ret' = ESP_OK

SemaphoreTimeout(op) ==
    /\ caller_pc = op
    /\ process_sem = 0
    /\ process_sem' = 0
    /\ ret' = ESP_FAIL

(* History: a send that returns by timeout. *)
NoteReturn == hist' = [hist EXCEPT !.timed_out = @ \/ process_sem = 0]

(* esp_modem_dte_send_cmd *)
send_cmd_call(command) == SendCall("send_cmd", command, command)

(* A return that clears handle_line on the success path only. *)
send_cmd_return_keep ==
    /\ SemaphoreTaken("send_cmd") \/ SemaphoreTimeout("send_cmd")
    /\ handle_line' = IF process_sem = 1 THEN NULL ELSE handle_line
    /\ caller_pc' = "idle"
    /\ NoteReturn
    /\ UNCHANGED <<handle_cmux_frame, dce_state, tx, call_arg, allocated>>
    /\ callerUnchanged

send_cmd_return ==
    /\ SemaphoreTaken("send_cmd") \/ SemaphoreTimeout("send_cmd")
    /\ handle_line' = NULL
    /\ caller_pc' = "idle"
    /\ NoteReturn
    /\ UNCHANGED <<handle_cmux_frame, dce_state, tx, call_arg, allocated>>
    /\ callerUnchanged

(* esp_modem_dte_send_sabm *)
send_sabm_call(dlci) == SendCall("send_sabm", dlci, sabm_frame(dlci))

send_sabm_return ==
    /\ SemaphoreTaken("send_sabm") \/ SemaphoreTimeout("send_sabm")
    /\ handle_cmux_frame' = NULL
    /\ caller_pc' = "idle"
    /\ NoteReturn
    /\ UNCHANGED <<handle_line, dce_state, tx, call_arg, allocated>>
    /\ callerUnchanged

(* esp_modem_dte_send_cmux_cmd: the frame is malloc'ed before the write    *)
(* and freed on the path on which xSemaphoreTake succeeded.                *)
send_cmux_cmd_call(command) ==
    SendCall("send_cmux_cmd", command, cmux_cmd_frame(command))

send_cmux_cmd_return ==
    /\ SemaphoreTaken("send_cmux_cmd") \/ SemaphoreTimeout("send_cmux_cmd")
    /\ allocated' = IF process_sem = 1 THEN allocated - 1 ELSE allocated
    /\ handle_cmux_frame' = NULL
    /\ caller_pc' = "idle"
    /\ NoteReturn
    /\ UNCHANGED <<handle_line, dce_state, tx, call_arg>>
    /\ callerUnchanged

-----------------------------------------------------------------------------
(* A bound DTE/DCE pair with one caller issuing serialized sends, the      *)
(* modem, and the reader task; the mode is fixed during a run.             *)

InitSystem ==
    /\ InitDte
    /\ call_arg = NULL
    /\ handle_line = NULL
    /\ handle_cmux_frame = NULL
    /\ env \in Envs
    /\ env.heap = <<>>
    /\ wire = <<>>
    /\ hist = [elements |-> <<>>, stream |-> <<>>, delivered |-> 0,
               handle_line0 |-> NULL, handle_cmux_frame0 |-> NULL,
               whole |-> FALSE, done_in_call |-> FALSE, sends |-> 0,
               rx |-> 0, op |-> NULL, hl_at_call |-> NULL,
               timed_out |-> FALSE, late_done |-> FALSE,
               budget |-> IF mode = "MODEM_COMMAND_MODE" THEN MaxSends
                          ELSE MaxCmuxSends,
               calls |-> <<>>]

(* Command mode: lines, pattern detection, send_cmd. *)
InitCommand ==
    /\ mode = "MODEM_COMMAND_MODE"
    /\ InitUart
    /\ InitSystem
    /\ receive_cb = NULL
    /\ env.hcf = "ok_done"

NextCommand ==
    \/ \E el \in Lines : ModemEmit(el)
    \/ UartPattern
    \/ handle_line_call
    \/ handle_line_return
    \/ DceRegister("handle_line")
    \/ \E command \in {CmdAt} : send_cmd_call(command)
    \/ send_cmd_return

SpecCommand == InitCommand /\ [][NextCommand]_vars

(* CMUX mode: frames, UART_DATA events, send_sabm and send_cmux_cmd. *)
InitCmux ==
    /\ mode = "MODEM_CMUX_MODE"
    /\ InitUart
    /\ InitSystem
    /\ receive_cb = "on_receive"
    /\ env.hl # "ok"
    /\ env.hcf # "ok"

NextCmux ==
    \/ \E el \in {FrameOk, FramePpp, FrameUa} : ModemEmit(el)
    \/ \E n \in 1..line_buffer_size : UartData(n)
    \/ \E field \in {"handle_line", "handle_cmux_frame"} : DceRegister(field)
    \/ \E dlci \in {0} : send_sabm_call(dlci)
    \/ send_sabm_return
    \/ \E command \in {CmdAt} : send_cmux_cmd_call(command)
    \/ send_cmux_cmd_return

SpecCmux == InitCmux /\ [][NextCmux]_vars

-----------------------------------------------------------------------------
(* The caller alone: every argument of the sends, send_cmux_data and       *)
(* change_mode; the DCE's process_cmd_done stands for the responses.       *)

Dlcis == {0, 1, 2, 63}

(* Inputs of send_cmux_data: the null pointer, or n bytes that differ from *)
(* their neighbours so that order and position show.                       *)
NullData == <<-1>>
DataOfLen(n) == [i \in 1..n |-> (i * 7) % 251]
DataLens == {0, 1, 127, 128, 254, MaxData}
DataInputs == {NullData} \cup {DataOfLen(n) : n \in DataLens}

Modes == {"MODEM_COMMAND_MODE", "MODEM_PPP_MODE", "MODEM_CMUX_MODE"}

NoteCall(op) == hist' = [hist EXCEPT !.sends = @ + 1, !.op = op]

(* esp_modem_dte_send_cmux_data *)
send_cmux_data(data) ==
    /\ caller_pc = "idle"
    /\ SendsLeft
    /\ call_arg' = data
    /\ IF data = NullData
       THEN /\ ret' = -1
            /\ tx' = tx
       ELSE /\ ret' = Len(data)
            /\ tx' = tx \o cmux_data_frames(data, Len(data))
    /\ NoteCall("send_cmux_data")
    /\ UNCHANGED <<handle_line, handle_cmux_frame, process_sem, dce_state,
                   caller_pc, allocated>>
    /\ callerUnchanged

(* The UART port and the record of calls into the DCE, as the switch of   *)
(* change_mode works on them.                                              *)
Uart == [pattern_det |-> pattern_det, rx_intr |-> rx_intr, wire |-> wire,
         log |-> log]

uart_disable_pattern_det_intr(u) == [u EXCEPT !.pattern_det = FALSE]
uart_enable_pattern_det_baud_intr(u) == [u EXCEPT !.pattern_det = TRUE]
uart_enable_rx_intr(u) == [u EXCEPT !.rx_intr = TRUE]
uart_disable_rx_intr(u) == [u EXCEPT !.rx_intr = FALSE]
uart_flush(u) == [u EXCEPT !.wire = <<>>]
(* dce->set_working_mode and dce->setup_cmux are calls into the DCE; the   *)
(* record of setup_cmux keeps the reception discipline it was called under. *)
set_working_mode(u, new_mode) ==
    [u EXCEPT !.log = Append(@, <<"set_working_mode", new_mode>>)]
setup_cmux(u) ==
    [u EXCEPT !.log = Append(@, <<"setup_cmux",
                                  <<u.pattern_det, u.rx_intr>>>>)]

(* A switch that calls setup_cmux before it reconfigures the UART. *)
change_mode_switch_setup_first(new_mode, swm, u) ==
    IF new_mode = "MODEM_COMMAND_MODE"
    THEN set_working_mode(uart_enable_pattern_det_baud_intr(
             uart_flush(uart_disable_rx_intr(u))), new_mode)
    ELSE IF swm # ESP_OK THEN set_working_mode(u, new_mode)
    ELSE IF new_mode = "MODEM_CMUX_MODE"
    THEN uart_enable_rx_intr(uart_disable_pattern_det_intr(
             setup_cmux(set_working_mode(u, new_mode))))
    ELSE uart_enable_rx_intr(uart_disable_pattern_det_intr(
             set_working_mode(u, new_mode)))

(* The switch statement of esp_modem_dte_change_mode: swm is what          *)
(* dce->set_working_mode returns.                                          *)
change_mode_switch(new_mode, swm, u) ==
    IF new_mode = "MODEM_COMMAND_MODE"
    THEN set_working_mode(uart_enable_pattern_det_baud_intr(
             uart_flush(uart_disable_rx_intr(u))), new_mode)
    ELSE IF swm # ESP_OK THEN set_working_mode(u, new_mode)
    ELSE IF new_mode = "MODEM_CMUX_MODE"
    THEN setup_cmux(uart_enable_rx_intr(uart_disable_pattern_det_intr(
             set_working_mode(u, new_mode))))
    ELSE uart_enable_rx_intr(uart_disable_pattern_det_intr(
             set_working_mode(u, new_mode)))

(* A change_mode that does not look at the current mode. *)
change_mode_unguarded(new_mode, swm) ==
    /\ caller_pc = "idle"
    /\ SendsLeft
    /\ call_arg' = new_mode
    /\ NoteCall("change_mode")
    /\ IF FALSE
       THEN /\ ret' = ESP_FAIL
            /\ UNCHANGED <<mode, pattern_det, rx_intr, wire, log>>
       ELSE LET u == change_mode_switch(new_mode, swm, Uart)
            IN  /\ ret' = swm
                /\ mode' = IF swm = ESP_OK THEN new_mode ELSE mode
                /\ pattern_det' = u.pattern_det
                /\ rx_intr' = u.rx_intr
                /\ wire' = u.wire
                /\ log' = u.log
    /\ UNCHANGED <<buffer, buffer_len, handle_line, handle_cmux_frame,
                   receive_cb, process_sem, dce_state, reader_pc, caller_pc,
                   env, tx, dispatched, allocated, dce>>

(* esp_modem_dte_change_mode.  swm is what dce->set_working_mode returns;  *)
(* when it succeeds the DCE has recorded the new mode in dce->mode.        *)
change_mode(new_mode, swm) ==
    /\ caller_pc = "idle"
    /\ SendsLeft
    /\ call_arg' = new_mode
    /\ NoteCall("change_mode")
    /\ IF mode = new_mode
       THEN /\ ret' = ESP_FAIL
            /\ UNCHANGED <<mode, pattern_det, rx_intr, wire, log>>
       ELSE LET u == change_mode_switch(new_mode, swm, Uart)
            IN  /\ ret' = swm
                /\ mode' = IF swm = ESP_OK THEN new_mode ELSE mode
                /\ pattern_det' = u.pattern_det
                /\ rx_intr' = u.rx_intr
                /\ wire' = u.wire
                /\ log' = u.log
    /\ UNCHANGED <<buffer, buffer_len, handle_line, handle_cmux_frame,
                   receive_cb, process_sem, dce_state, reader_pc, caller_pc,
                   env, tx, dispatched, allocated, dce>>

(* esp_modem_dte_send_data: no DCE field is touched. *)
send_data(data) ==
    /\ caller_pc = "idle"
    /\ SendsLeft
    /\ call_arg' = data
    /\ IF data = NullData
       THEN /\ ret' = -1
            /\ tx' = tx
       ELSE /\ ret' = Len(data)
            /\ tx' = Append(tx, data)
    /\ NoteCall("send_data")
    /\ UNCHANGED <<handle_line, handle_cmux_frame, process_sem, dce_state,
                   caller_pc, allocated>>
    /\ callerUnchanged

\* "> "
Prompt == <<62, 32>>
Prompts == {NullData, Prompt}
(* What uart_read_bytes returns to send_wait and leaves in its buffer:     *)
(* an error, nothing, part of the prompt, the prompt, other text.          *)
Reads == {[res |-> -1, got |-> <<>>], [res |-> 0, got |-> <<>>],
          [res |-> 1, got |-> <<62>>], [res |-> 2, got |-> Prompt],
          [res |-> 2, got |-> <<79, 75>>]}

(* res >= len with int res converted to uint32_t: a negative res becomes  *)
(* a value above every length.                                            *)
UnsignedGe(res, len) == res < 0 \/ res >= len

(* An error line of MODEM_CHECK. *)
ESP_LOGE(u, str) == [u EXCEPT !.log = Append(@, <<"ESP_LOGE", str>>)]

(* A send_wait that forgets pattern detection when the write fails. *)
send_wait_run_no_reenable(data, prompt, wr, rd, u) ==
    IF data = NullData
    THEN [uart |-> ESP_LOGE(u, "data is NULL"), ret |-> ESP_FAIL,
          written |-> <<>>]
    ELSE IF prompt = NullData
    THEN [uart |-> ESP_LOGE(u, "prompt is NULL"), ret |-> ESP_FAIL,
          written |-> <<>>]
    ELSE LET u1     == uart_disable_pattern_det_intr(u)
             len    == Len(prompt)
             rdbuf  == [i \in 1..len |->
                           IF i <= Len(rd.got) THEN rd.got[i] ELSE 0]
         IN  IF wr < 0
             THEN [uart |-> ESP_LOGE(u1, "uart write bytes failed"),
                   ret |-> ESP_FAIL, written |-> <<>>]
             ELSE IF ~UnsignedGe(rd.res, len)
             THEN [uart |-> uart_enable_pattern_det_baud_intr(
                                ESP_LOGE(u1, "wait prompt [%s] timeout")),
                   ret |-> ESP_FAIL, written |-> <<data>>]
             ELSE IF rdbuf # prompt
             THEN [uart |-> uart_enable_pattern_det_baud_intr(
                                ESP_LOGE(u1, "get wrong prompt: %s")),
                   ret |-> ESP_FAIL, written |-> <<data>>]
             ELSE [uart |-> uart_enable_pattern_det_baud_intr(u1),
                   ret |-> ESP_OK, written |-> <<data>>]

(* The body of esp_modem_dte_send_wait.  wr is what uart_write_bytes       *)
(* returns, rd what uart_read_bytes returns and leaves in the zeroed       *)
(* buffer; res is an int compared with the uint32_t len, so the comparison *)
(* is made on 32-bit unsigned values.                                      *)
send_wait_run(data, prompt, wr, rd, u) ==
    IF data = NullData
    THEN [uart |-> ESP_LOGE(u, "data is NULL"), ret |-> ESP_FAIL,
          written |-> <<>>]
    ELSE IF prompt = NullData
    THEN [uart |-> ESP_LOGE(u, "prompt is NULL"), ret |-> ESP_FAIL,
          written |-> <<>>]
    ELSE LET u1     == uart_disable_pattern_det_intr(u)
             len    == Len(prompt)
             rdbuf  == [i \in 1..len |->
                           IF i <= Len(rd.got) THEN rd.got[i] ELSE 0]
         IN  IF wr < 0
             THEN [uart |-> uart_enable_pattern_det_baud_intr(
                                ESP_LOGE(u1, "uart write bytes failed")),
                   ret |-> ESP_FAIL, written |-> <<>>]
             ELSE IF ~UnsignedGe(rd.res, len)
             THEN [uart |-> uart_enable_pattern_det_baud_intr(
                                ESP_LOGE(u1, "wait prompt [%s] timeout")),
                   ret |-> ESP_FAIL, written |-> <<data>>]
             ELSE IF rdbuf # prompt
             THEN [uart |-> uart_enable_pattern_det_baud_intr(
                                ESP_LOGE(u1, "get wrong prompt: %s")),
                   ret |-> ESP_FAIL, written |-> <<data>>]
             ELSE [uart |-> uart_enable_pattern_det_baud_intr(u1),
                   ret |-> ESP_OK, written |-> <<data>>]

(* esp_modem_dte_send_wait *)
send_wait(data, prompt, wr, rd) ==
    /\ caller_pc = "idle"
    /\ SendsLeft
    /\ call_arg' = <<data, prompt>>
    /\ NoteCall("send_wait")
    /\ LET r == send_wait_run(data, prompt, wr, rd, Uart)
       IN  /\ ret' = r.ret
           /\ tx' = tx \o r.written
           /\ pattern_det' = r.uart.pattern_det
           /\ rx_intr' = r.uart.rx_intr
           /\ wire' = r.uart.wire
           /\ log' = r.uart.log
    /\ UNCHANGED <<buffer, buffer_len, handle_line, handle_cmux_frame,
                   receive_cb, process_sem, dce_state, mode, reader_pc,
                   caller_pc, env, dispatched, allocated, dce>>

(* esp_modem_dte_process_cmd_done, called by the DCE. *)
process_cmd_done ==
    /\ process_sem' = 1
    /\ hist' = NoteDone(hist, TRUE)
    /\ UNCHANGED <<handle_line, handle_cmux_frame, dce_state, caller_pc, ret,
                   tx, call_arg, allocated>>
    /\ callerUnchanged

InitCaller ==
    /\ InitDte
    /\ mode = "MODEM_COMMAND_MODE"
    /\ InitUart
    /\ handle_line = NULL
    /\ handle_cmux_frame = NULL
    /\ receive_cb = NULL
    /\ env = [hl |-> "ok_done", hcf |-> "ok_done", heap |-> <<>>]
    /\ wire = <<>>
    /\ hist = [elements |-> <<>>, stream |-> <<>>, delivered |-> 0,
               handle_line0 |-> NULL, handle_cmux_frame0 |-> NULL,
               whole |-> FALSE, done_in_call |-> FALSE, sends |-> 0,
               rx |-> 0, op |-> NULL, hl_at_call |-> NULL,
               timed_out |-> FALSE, late_done |-> FALSE,
               budget |-> MaxCalls, calls |-> <<>>]

InitApi ==
    /\ InitCaller
    /\ call_arg = NULL

NextApi ==
    \/ \E dlci \in Dlcis : send_sabm_call(dlci)
    \/ send_sabm_return
    \/ \E command \in Commands : send_cmux_cmd_call(command)
    \/ send_cmux_cmd_return
    \/ \E data \in DataInputs : send_cmux_data(data)
    \/ \E command \in {CmdAt} : send_cmd_call(command)
    \/ send_cmd_return
    \/ \E data \in {NullData, CmdAt} : send_data(data)
    \/ \E data \in {NullData, CmdAt}, prompt \in Prompts, wr \in {-1, 3},
          rd \in Reads : send_wait(data, prompt, wr, rd)
    \/ \E new_mode \in Modes, swm \in {ESP_OK, ESP_FAIL} :
          change_mode(new_mode, swm)
    \/ process_cmd_done

SpecApi == InitApi /\ [][NextApi]_vars

-----------------------------------------------------------------------------
(* The frame check sequence on its own: a 3-byte header is drawn, and the  *)
(* expression 0xFF - crc8(&frame[1], 3, FCS_POLYNOMIAL, FCS_INIT_VALUE,    *)
(* true) the three frame builders share is applied to it.                  *)

HeaderAddresses == {(d * 4) + c : d \in Dlcis, c \in {1, 3}}
HeaderControls == {FT_SABM, FT_SABM + PF, FT_UA, FT_UA + PF, FT_UIH, FT_UIH + PF}
HeaderLengths == {1, 3, 7, 37, 129, 255}
Headers == {<<a, c, l>> : a \in HeaderAddresses, c \in HeaderControls,
                          l \in HeaderLengths}

InitFcs ==
    /\ InitCaller
    /\ \E h \in Headers : call_arg = h

append_fcs ==
    /\ tx = <<>>
    /\ call_arg \in Headers
    /\ tx' = <<call_arg \o <<255 - crc8(call_arg, FCS_POLYNOMIAL,
                                         FCS_INIT_VALUE, TRUE)>>>>
    /\ UNCHANGED <<handle_line, handle_cmux_frame, process_sem, dce_state,
                   caller_pc, ret, call_arg, hist, allocated>>
    /\ callerUnchanged

NextFcs == append_fcs

SpecFcs == InitFcs /\ [][NextFcs]_vars

-----------------------------------------------------------------------------
(* Vocabulary of the deframer claims *)

(* The bytes read by the UART_DATA event of this step. *)
Chunk == SubSeq(hist.stream, hist.delivered + 1, hist'.delivered)

DataEvent == hist'.delivered > hist.delivered

AllValid(els) == \A i \in 1..Len(els) : els[i] \in ValidFrames

(* How many leading elements lie wholly within the first p bytes. *)
RECURSIVE CompleteCount(_, _)
CompleteCount(els, p) ==
    IF els = <<>> \/ Len(Head(els)) > p THEN 0
    ELSE 1 + CompleteCount(Tail(els), p - Len(Head(els)))

AllDelivered == hist.delivered = Len(hist.stream) /\ wire = <<>>

CountOf(seq, x) == Cardinality({i \in 1..Len(seq) : seq[i] = x})

(* C6: a UART_DATA event that brings k >= 1 complete valid frames into an   *)
(* empty reassembly buffer dispatches exactly these k frames, in order,     *)
(* each once, and leaves buffer_len = 0.                                    *)
C6_BackToBackFrames ==
    [][\A fs \in SeqsUpTo(ValidFrames, MaxFrames) :
          (DataEvent /\ buffer_len = 0 /\ Chunk = Concat(fs))
              => (dispatched' = dispatched \o fs /\ buffer_len' = 0)]_vars

C6_Witness ==
    /\ hist.whole /\ Len(hist.elements) = 2 /\ AllValid(hist.elements)
    /\ dispatched = hist.elements /\ buffer_len = 0

(* C7: on a stream of valid frames, the frames dispatched so far are        *)
(* exactly the frames all of whose L+6 bytes have been read: no dispatch    *)
(* on a proper prefix, one dispatch once the rest has come.                 *)
C7_NoDispatchBeforeComplete ==
    AllValid(hist.elements) =>
        dispatched = SubSeq(hist.elements, 1,
                            CompleteCount(hist.elements, hist.delivered))

(* A frame was cut by an event boundary and dispatched once completed. *)
C7_Witness ==
    /\ AllValid(hist.elements) /\ ~hist.whole /\ AllDelivered
    /\ Len(hist.elements) = 1 /\ dispatched = hist.elements

(* The run that reads the whole stream in one UART_DATA event. *)
Dte0 ==
    [buffer |-> [i \in 0..(line_buffer_size - 1) |-> 0], buffer_len |-> 0,
     handle_line |-> hist.handle_line0,
     handle_cmux_frame |-> hist.handle_cmux_frame0,
     receive_cb |-> receive_cb, process_sem |-> 0,
     dispatched |-> <<>>, log |-> <<>>, gave |-> FALSE, calls |-> <<>>]

WholeRun == esp_handle_uart_data(Dte0, hist.stream, env)

(* C3: once a stream of valid frames has been read, in whatever chunks, the *)
(* calls made (which handler, with which content) are those of the run that *)
(* reads the stream in one event.                                           *)
C3_StreamingDeframer ==
    (AllValid(hist.elements) /\ AllDelivered) => log = WholeRun.log

(* The frames handed to esp_dte_handle_cmux_frame do not depend on the      *)
(* chunking; what differs is the text handle_line is given.                 *)
FramesIndependentOfChunking ==
    (AllValid(hist.elements) /\ AllDelivered)
        => dispatched = WholeRun.dispatched

(* C4: when the buffer holds garbage that does not begin with SOF and a     *)
(* UART_DATA event brings a valid frame, the garbage is dropped and the     *)
(* frame is dispatched.                                                     *)
C4_ResyncAfterGarbage ==
    [][\A f \in ValidFrames :
          (DataEvent /\ buffer_len > 0 /\ buffer[0] # SOF_MARKER /\ Chunk = f)
              => dispatched' = Append(dispatched, f)]_vars

(* The buffer starts with a complete frame whose closing SOF is missing. *)
StuckOnBadTail ==
    /\ buffer_len >= 5 /\ buffer[0] = SOF_MARKER
    /\ buffer_len >= (buffer[3] \div 2) + 6
    /\ buffer[(buffer[3] \div 2) + 5] # SOF_MARKER

(* C5: after a frame with a bad closing SOF, valid frames that arrive are   *)
(* dispatched again.                                                        *)
C5_RecoversAfterBadTail ==
    (AllDelivered /\ Len(hist.elements) >= 2
       /\ hist.elements[1] = FrameBadTail
       /\ AllValid(Tail(hist.elements)))
        => Len(dispatched) >= 1

(* What the code does instead: the stuck frame is never consumed. *)
BadTailIsNeverLeft ==
    [][StuckOnBadTail => (StuckOnBadTail' /\ dispatched' = dispatched)]_vars

(* C10: handle_line is never called with a text of CR and LF bytes only. *)
C10_NoCrLfLineForwarded ==
    \A i \in 1..Len(log) :
        log[i][1] = "handle_line" => ~is_only_cr_lf(log[i][2])

-----------------------------------------------------------------------------
(* Vocabulary of the send claims *)

Sends == {"send_cmd", "send_sabm", "send_cmux_cmd"}

(* The send op returns in this step. *)
Returns(op) == caller_pc = op /\ caller_pc' = "idle"

(* C1: a process_cmd_done that arrives after an earlier send_cmd timed out *)
(* does not make a later send_cmd succeed: a send_cmd during which         *)
(* process_cmd_done is not called returns failure.                         *)
C1_StaleDoneDoesNotSucceed ==
    [][(Returns("send_cmd") /\ hist.late_done /\ ~hist.done_in_call)
          => ret' = ESP_FAIL]_vars

(* C8: handle_line is null when send_cmd returns, on success and on timeout. *)
C8_HandleLineNullOnReturn ==
    [][Returns("send_cmd") => handle_line' = NULL]_vars

(* send_cmd was called with a handler registered and has timed out. *)
C8_Witness ==
    /\ caller_pc = "idle" /\ hist.op = "send_cmd" /\ ret = ESP_FAIL
    /\ hist.hl_at_call = "handler" /\ handle_line = NULL

(* C9: when send_cmd, send_sabm or send_cmux_cmd returns, handle_line and  *)
(* handle_cmux_frame are both null.                                        *)
C9_HandlersNullOnReturn ==
    [][\A op \in Sends :
          Returns(op) => (handle_line' = NULL /\ handle_cmux_frame' = NULL)]_vars

(* C2: with receive_cb registered in CMUX mode, a UIH frame on DLCI 1 with  *)
(* payload is passed to receive_cb with exactly its payload, also when it  *)
(* arrives while send_cmux_cmd is waiting for the response of an AT        *)
(* command (a one-shot handler is registered); stated for that case.       *)
C2_DataFrameWhileCommandPending ==
    [][(DataEvent /\ buffer_len = 0 /\ receive_cb # NULL
          /\ mode = "MODEM_CMUX_MODE" /\ caller_pc = "send_cmux_cmd"
          /\ Chunk = FramePpp)
         => log' = Append(log, <<"receive_cb", <<126, 33, 126>>>>)]_vars

-----------------------------------------------------------------------------
(* Vocabulary of the transmit claims *)

(* The caller makes the call op in this step. *)
Called(op) == hist'.sends = hist.sends + 1 /\ hist'.op = op

(* The writes made to the UART in this step. *)
Written == SubSeq(tx', Len(tx) + 1, Len(tx'))

(* 0xFF - crc8 over the three header bytes. *)
HeaderFcs(address, control, length) ==
    255 - crc8(<<address, control, length>>, FCS_POLYNOMIAL, FCS_INIT_VALUE, TRUE)

(* C11: send_cmux_cmd with exactly "ATD*99***1#\r" writes a frame whose     *)
(* address byte is (1<<2)|0x03 = 7; with any other command the address     *)
(* byte is (2<<2)|0x03 = 11.                                               *)
C11_DialRouting ==
    [][Called("send_cmux_cmd")
         => /\ Len(Written) = 1
            /\ Written[1][2] = IF call_arg' = CmdDial THEN 7 ELSE 11]_vars

(* C11 as the code has it: the address byte carries the EA bit only, it is *)
(* (1<<2)|0x01 = 5 for the dial string and (2<<2)|0x01 = 9 otherwise.      *)
C11_DialRoutingEaOnly ==
    [][Called("send_cmux_cmd")
         => /\ Len(Written) = 1
            /\ Written[1][2] = IF call_arg' = CmdDial THEN 5 ELSE 9]_vars

(* The dial string went out on DLCI 1, then its prefix without CR on DLCI 2. *)
C11_Witness ==
    /\ hist.op = "send_cmux_cmd" /\ call_arg = CmdDialNoCr
    /\ Len(tx) = 2 /\ Len(tx[1]) = 18
    /\ tx[1][2] = 5 /\ tx[2][2] = 9

(* C12: for a command other than the dial string, of length n <= 127,      *)
(* send_cmux_cmd writes exactly the n+6 bytes F9, 09, EF, (n<<1)|1, the    *)
(* text, FCS = 0xFF - crc8(address, control, length), F9; for "AT\r" that  *)
(* is F9 09 EF 07 'A' 'T' '\r' 35 F9.                                      *)
C12_CommandFraming ==
    [][(Called("send_cmux_cmd") /\ call_arg' # CmdDial /\ Len(call_arg') <= 127)
         => LET n == Len(call_arg')
            IN  /\ Written = << <<249, 9, 239, (n * 2) + 1>> \o call_arg'
                                \o <<HeaderFcs(9, 239, (n * 2) + 1), 249>> >>
                /\ call_arg' = CmdAt
                     => Written = << <<249, 9, 239, 7, 65, 84, 13, 53, 249>> >>
       ]_vars

(* "AT\r" and then a text of 127 characters have been framed. *)
C12_Witness ==
    /\ hist.op = "send_cmux_cmd" /\ call_arg = Cmd127
    /\ Len(tx) = 2 /\ tx[1] = <<249, 9, 239, 7, 65, 84, 13, 53, 249>>
    /\ Len(tx[2]) = 133 /\ tx[2][4] = 255

C15_FcsGoodValue ==
    tx # <<>> => crc8(tx[1], FCS_POLYNOMIAL, FCS_INIT_VALUE, TRUE) = FCS_GOOD_VALUE

(* The FCS of the header 09 EF 07 has been appended. *)
C15_Witness == tx = << <<9, 239, 7, 53>> >>

(* A written frame is a UIH frame on DLCI 1 with 1..127 payload bytes. *)
IsDataFrame(f) ==
    LET L == Len(f) - 6
    IN  /\ L \in 1..127
        /\ f[1] = SOF_MARKER /\ f[2] \div 4 = 1 /\ f[3] = FT_UIH
        /\ f[4] = (L * 2) + 1
        /\ f[L + 5] = HeaderFcs(f[2], f[3], f[4])
        /\ f[L + 6] = SOF_MARKER

Payloads(frames) == [k \in DOMAIN frames |-> SubSeq(frames[k], 5, Len(frames[k]) - 2)]

(* C13: for a non-null input of length n, send_cmux_data writes exactly    *)
(* ceil(n/127) UIH frames on DLCI 1, each with 1..127 payload bytes, whose *)
(* payloads concatenated in the order written are the input; it returns n. *)
C13_Fragmentation ==
    [][(Called("send_cmux_data") /\ call_arg' # NullData)
         => LET n == Len(call_arg')
            IN  /\ Len(Written) = (n + 126) \div 127
                /\ \A k \in DOMAIN Written : IsDataFrame(Written[k])
                /\ Concat(Payloads(Written)) = call_arg'
                /\ ret' = n]_vars

(* 255 bytes went out as frames of 127, 127 and 1 payload bytes. *)
C13_Witness ==
    /\ hist.op = "send_cmux_data" /\ ret = 255
    /\ Len(tx) = 3 /\ Len(tx[1]) = 133 /\ Len(tx[2]) = 133 /\ Len(tx[3]) = 7

(* C16: change_mode(new_mode) while the DCE is in new_mode returns failure, *)
(* calls neither set_working_mode nor setup_cmux, and leaves the reception *)
(* discipline and the mode as they were.                                   *)
C16_SameModeRejected ==
    [][(Called("change_mode") /\ call_arg' = mode)
         => /\ ret' = ESP_FAIL
            /\ log' = log
            /\ UNCHANGED <<mode, pattern_det, rx_intr>>]_vars

(* CMUX mode was entered and a second change_mode(CMUX) was rejected. *)
C16_Witness ==
    /\ hist.op = "change_mode" /\ hist.sends = 2
    /\ call_arg = "MODEM_CMUX_MODE" /\ mode = "MODEM_CMUX_MODE"
    /\ ret = ESP_FAIL
    /\ log = <<<<"set_working_mode", "MODEM_CMUX_MODE">>,
              <<"setup_cmux", <<FALSE, TRUE>>>>>>
    /\ ~pattern_det /\ rx_intr

-----------------------------------------------------------------------------
(* Dispatch claims *)

(* The DLCI of the frame a call was made for. *)
CallDlci(c) == dispatched[c.frame][2] \div 4

(* C17: within one DLCI, frames reach handle_line / handle_cmux_frame /    *)
(* receive_cb in the order in which they arrived, whatever the chunking:   *)
(* the frames dispatched are the frames received, in that order, and the   *)
(* calls made for one DLCI are made for frames of increasing position.     *)
C17_ArrivalOrder ==
    /\ \A k \in DOMAIN dispatched : dispatched[k] = hist.elements[k]
    /\ \A i, j \in DOMAIN hist.calls :
          (i < j /\ CallDlci(hist.calls[i]) = CallDlci(hist.calls[j]))
              => hist.calls[i].frame < hist.calls[j].frame

(* Two different frames of DLCI 2, read in more than one event, have both  *)
(* been passed to handle_line.                                             *)
C17_Witness ==
    /\ hist.elements = <<FrameOk, FrameCrLf>> /\ AllDelivered /\ ~hist.whole
    /\ hist.calls = <<[handler |-> "handle_line", frame |-> 1],
                      [handler |-> "handle_line", frame |-> 2]>>

(* C18: a UIH frame on DLCI 1 carrying "\r\nCONNECT 115200\r\n", received   *)
(* with handle_line registered and no handle_cmux_frame, makes exactly one *)
(* call of handle_line, with the text "CONNECT 115200", and handle_line is *)
(* null afterwards (for a handler that returns success).                   *)
C18_ConnectOnDlci1 ==
    [][(DataEvent /\ buffer_len = 0 /\ Chunk = FrameConnect
          /\ handle_line # NULL /\ handle_cmux_frame = NULL /\ env.hl # "fail")
         => /\ log' = Append(log, <<"handle_line", ConnectText>>)
            /\ handle_line' = NULL]_vars

(* C19: a dispatch to a registered handle_cmux_frame that returns success  *)
(* clears handle_cmux_frame, so the handler is called for one frame only,  *)
(* also when the UART event holds more frames.                             *)
C19_OneShotFrameHandler ==
    [][(DataEvent /\ handle_cmux_frame # NULL /\ env.hcf # "fail"
          /\ dispatched' # dispatched)
         => /\ handle_cmux_frame' = NULL
            /\ Len(log') = Len(log) + 1]_vars

(* The buffer starts with SOF, holds the L+6 bytes its header announces,   *)
(* and the byte at index L+5 is not SOF.                                   *)
MissingEndSof(d) ==
    LET L == d.buffer[3] \div 2
    IN  /\ d.buffer[0] = SOF_MARKER
        /\ d.buffer_len >= L + 6
        /\ d.buffer[L + 5] # SOF_MARKER

(* The buffer as the deframer finds it in this step: the bytes read are    *)
(* behind those already held.                                              *)
Appended ==
    [Dte EXCEPT !.buffer = uart_read_bytes(@, buffer_len, Chunk),
                !.buffer_len = @ + Len(Chunk)]

(* C20: when the buffer starts with F9, holds at least L+6 bytes and the   *)
(* byte at index L+5 is not F9, the deframer dispatches nothing and leaves *)
(* the buffer content and buffer_len as they are.                          *)
C20_NoConsumeOnMissingEndSof ==
    [][(DataEvent /\ MissingEndSof(Appended))
         => /\ buffer' = Appended.buffer
            /\ buffer_len' = Appended.buffer_len
            /\ dispatched' = dispatched
            /\ log' = log]_vars

(* A frame with a damaged closing SOF has been read in full and is still   *)
(* in the buffer, and nothing has been dispatched.                         *)
C20_Witness ==
    /\ MissingEndSof(Dte) /\ buffer_len = Len(FrameBadTail)
    /\ hist.delivered = buffer_len /\ dispatched = <<>>

-----------------------------------------------------------------------------
(* Mode controller claims *)

NewLog == SubSeq(log', Len(log) + 1, Len(log'))

(* C21: after a change_mode that returns ESP_OK, pattern detection is      *)
(* enabled and the RX interrupt disabled exactly when the new mode is      *)
(* Command; for CMUX, setup_cmux is called once, last, and under the       *)
(* reconfigured discipline (pattern detection off, RX interrupt on).       *)
C21_DisciplineMatchesMode ==
    [][(Called("change_mode") /\ ret' = ESP_OK)
         => /\ pattern_det' = (call_arg' = "MODEM_COMMAND_MODE")
            /\ rx_intr' = (call_arg' # "MODEM_COMMAND_MODE")
            /\ NewLog[1] = <<"set_working_mode", call_arg'>>
            /\ IF call_arg' = "MODEM_CMUX_MODE"
               THEN /\ Len(NewLog) = 2
                    /\ NewLog[2] = <<"setup_cmux", <<FALSE, TRUE>>>>
               ELSE Len(NewLog) = 1]_vars

(* CMUX mode was entered and left again, both with success. *)
C21_Witness ==
    /\ hist.op = "change_mode" /\ hist.sends = 2 /\ ret = ESP_OK
    /\ call_arg = "MODEM_COMMAND_MODE" /\ mode = "MODEM_COMMAND_MODE"
    /\ log = <<<<"set_working_mode", "MODEM_CMUX_MODE">>,
              <<"setup_cmux", <<FALSE, TRUE>>>>,
              <<"set_working_mode", "MODEM_COMMAND_MODE">>>>
    /\ pattern_det /\ ~rx_intr

LegalTransitions ==
    {<<"MODEM_COMMAND_MODE", "MODEM_PPP_MODE">>,
     <<"MODEM_COMMAND_MODE", "MODEM_CMUX_MODE">>,
     <<"MODEM_PPP_MODE", "MODEM_COMMAND_MODE">>,
     <<"MODEM_CMUX_MODE", "MODEM_COMMAND_MODE">>}

(* C22: change_mode returns ESP_OK only for Command->PPP, Command->CMUX,   *)
(* PPP->Command and CMUX->Command; a request for any other transition      *)
(* leaves the mode and the reception discipline as they are.               *)
C22_OnlyLegalTransitions ==
    [][Called("change_mode")
         => IF <<mode, call_arg'>> \in LegalTransitions
            THEN TRUE
            ELSE /\ ret' = ESP_FAIL
                 /\ mode' = mode
                 /\ pattern_det' = pattern_det
                 /\ rx_intr' = rx_intr]_vars

-----------------------------------------------------------------------------
(* Dispatch failure in Command mode *)

UnknownLine(text) == <<"ESP_MODEM_EVENT_UNKNOWN", text>>

(* The line the reader took from the UART last. *)
LastLine(n) == SubSeq(hist.stream, hist.delivered - n + 1, hist.delivered)

(* C23: in Command mode, a line of more than 2 characters that is not only *)
(* CR/LF, read while no handle_line is registered, or passed to a          *)
(* handle_line that returns failure, makes the reader publish exactly one  *)
(* UNKNOWN_LINE event carrying that line, and the rendezvous semaphore is  *)
(* left as it was, so a caller blocked on it stays blocked.                *)
C23_DispatchFailure ==
    [][/\ (/\ reader_pc = "idle" /\ mode = "MODEM_COMMAND_MODE" /\ DataEvent
           /\ handle_line = NULL
           /\ Len(Chunk) > 2 /\ ~is_only_cr_lf(Chunk))
          => /\ log' = Append(log, UnknownLine(Chunk))
             /\ process_sem' = process_sem
             /\ reader_pc' = "idle"
       /\ (reader_pc = "in_handle_line" /\ reader_pc' = "idle"
             /\ env.hl = "fail")
          => LET text == log[Len(log)][2]
             IN  /\ log[Len(log)][1] = "handle_line"
                 /\ text = LastLine(Len(text))
                 /\ log' = Append(log, UnknownLine(text))
                 /\ process_sem' = process_sem]_vars

(* A first line arrived with no handler registered, a second one was      *)
(* refused by the handler; both were published as UNKNOWN_LINE and the     *)
(* send_cmd timed out.                                                     *)
C23_Witness ==
    /\ log = <<UnknownLine(LineOk), <<"handle_line", LineOk>>,
              UnknownLine(LineOk)>>
    /\ hist.sends = 1 /\ hist.timed_out /\ caller_pc = "idle"
    /\ ret = ESP_FAIL /\ process_sem = 0

-----------------------------------------------------------------------------
(* Frame buffers of send_cmux_cmd *)

(* C25: the frame buffer send_cmux_cmd allocates is released before the    *)
(* call returns, on the success path and on the timeout path: whenever the *)
(* caller is not inside a send, no frame buffer is allocated.              *)
C25_FrameFreedOnReturn == caller_pc = "idle" => allocated = 0

-----------------------------------------------------------------------------
(* send_wait and the DCE state *)

(* C24: a send_wait with data and prompt leaves pattern detection enabled  *)
(* whichever way it ends (success, wrong prompt, prompt timeout, write     *)
(* failure); with null data or null prompt it returns ESP_FAIL, writes     *)
(* nothing and leaves the pattern-detection setting as it was.             *)
C24_PatternDetRestored ==
    [][Called("send_wait")
         => IF call_arg'[1] = NullData \/ call_arg'[2] = NullData
            THEN /\ ret' = ESP_FAIL
                 /\ tx' = tx
                 /\ pattern_det' = pattern_det
            ELSE pattern_det']_vars

(* Two send_wait calls have ended, one on the write failure and one on the *)
(* prompt timeout, and pattern detection is enabled.                       *)
C24_Witness ==
    /\ hist.op = "send_wait" /\ hist.sends = 2
    /\ log = <<<<"ESP_LOGE", "uart write bytes failed">>,
              <<"ESP_LOGE", "wait prompt [%s] timeout">>>>
    /\ tx = <<CmdAt>> /\ pattern_det /\ ret = ESP_FAIL

SendOps == {"send_cmd", "send_cmux_cmd", "send_sabm", "send_data",
            "send_cmux_data", "send_wait"}

(* C27: every send operation that writes to the UART has set dce->state to *)
(* MODEM_STATE_PROCESSING by then.                                         *)
C27_ProcessingBeforeWrite ==
    [][((\E op \in SendOps : Called(op)) /\ tx' # tx)
         => dce_state' = "MODEM_STATE_PROCESSING"]_vars

-----------------------------------------------------------------------------
(* esp_modem_dte_init, one library call at a time.  call_arg holds the     *)
(* configured flow control and the call that fails in this run; log is the *)
(* record of the calls that acquire, configure and release resources.      *)

InitSteps ==
    << [at |-> "calloc_esp_dte", call |-> "calloc", res |-> "esp_dte",
        err |-> "err_dte_mem"],
       [at |-> "calloc_buffer", call |-> "calloc", res |-> "buffer",
        err |-> "err_line_mem"],
       [at |-> "uart_param_config", call |-> "uart_param_config",
        res |-> "", err |-> "err_uart_config"],
       [at |-> "uart_set_pin", call |-> "uart_set_pin", res |-> "",
        err |-> "err_uart_config"],
       [at |-> "uart_set_flow_ctrl", call |-> "uart_set_flow_ctrl",
        res |-> "", err |-> "err_uart_config"],
       [at |-> "uart_driver_install", call |-> "uart_driver_install",
        res |-> "uart_driver", err |-> "err_uart_config"],
       [at |-> "uart_set_rx_timeout", call |-> "uart_set_rx_timeout",
        res |-> "", err |-> "err_uart_config"],
       [at |-> "uart_pattern", call |-> "uart_enable_pattern_det_baud_intr",
        res |-> "", err |-> "err_uart_pattern"],
       [at |-> "esp_event_loop_create", call |-> "esp_event_loop_create",
        res |-> "event_loop", err |-> "err_eloop"],
       [at |-> "xSemaphoreCreateBinary", call |-> "xSemaphoreCreateBinary",
        res |-> "process_sem", err |-> "err_sem"],
       [at |-> "xTaskCreate", call |-> "xTaskCreate", res |-> "task",
        err |-> "err_tsk_create"] >>

(* The error labels in the order in which control falls through them. *)
InitLabels ==
    << [at |-> "err_tsk_create", call |-> "vSemaphoreDelete",
        res |-> "process_sem"],
       [at |-> "err_sem", call |-> "esp_event_loop_delete",
        res |-> "event_loop"],
       [at |-> "err_eloop", call |-> "uart_disable_pattern_det_intr",
        res |-> ""],
       [at |-> "err_uart_pattern", call |-> "uart_driver_delete",
        res |-> "uart_driver"],
       [at |-> "err_uart_config", call |-> "free", res |-> "buffer"],
       [at |-> "err_line_mem", call |-> "free", res |-> "esp_dte"],
       [at |-> "err_dte_mem", call |-> "return", res |-> ""] >>

FlowControls == {"MODEM_FLOW_CONTROL_NONE", "MODEM_FLOW_CONTROL_SW",
                 "MODEM_FLOW_CONTROL_HW"}

(* +++ and the CMUX close-down frame written at the end of init *)
InitTeardown == << <<43, 43, 43>>, <<249, 3, 239, 5, 195, 1, 242, 249>> >>

InitInit ==
    /\ buffer = [i \in 0..(line_buffer_size - 1) |-> 0]
    /\ buffer_len = 0
    /\ process_sem = 0
    /\ reader_pc = "idle"
    /\ caller_pc = InitSteps[1].at
    /\ ret = NULL
    /\ dce_state = "MODEM_STATE_SUCCESS"
    /\ tx = <<>>
    /\ allocated = 0
    /\ dce = "dce"
    /\ dispatched = <<>>
    /\ log = <<>>
    /\ mode = "MODEM_COMMAND_MODE"
    /\ pattern_det = FALSE
    /\ rx_intr = TRUE
    /\ handle_line = NULL
    /\ handle_cmux_frame = NULL
    /\ receive_cb = NULL
    /\ env = [hl |-> "ok_done", hcf |-> "ok_done", heap |-> <<>>]
    /\ wire = <<>>
    /\ hist = [elements |-> <<>>, stream |-> <<>>, delivered |-> 0,
               handle_line0 |-> NULL, handle_cmux_frame0 |-> NULL,
               whole |-> FALSE, done_in_call |-> FALSE, sends |-> 0,
               rx |-> 0, op |-> "esp_modem_dte_init", hl_at_call |-> NULL,
               timed_out |-> FALSE, late_done |-> FALSE,
               budget |-> 0, calls |-> <<>>]
    /\ \E flow \in FlowControls,
          fails \in {"none"} \cup {InitSteps[k].at : k \in DOMAIN InitSteps} :
          /\ (flow = "MODEM_FLOW_CONTROL_NONE" => fails # "uart_set_flow_ctrl")
          /\ call_arg = [flow_control |-> flow, fails |-> fails]

initUnchanged ==
    UNCHANGED <<buffer, buffer_len, handle_line, handle_cmux_frame,
                receive_cb, process_sem, dce_state, mode, wire, reader_pc,
                env, call_arg, dispatched, hist, allocated, dce>>

(* One call of the straight-line part of init and the MODEM_CHECK on its   *)
(* result.  Without flow control no flow-control call is made and res      *)
(* still holds the result of uart_set_pin.                                 *)
init_step ==
    /\ hist.op = "esp_modem_dte_init"
    /\ \E k \in DOMAIN InitSteps :
          /\ caller_pc = InitSteps[k].at
          /\ LET step    == InitSteps[k]
                 skipped == /\ step.at = "uart_set_flow_ctrl"
                            /\ call_arg.flow_control = "MODEM_FLOW_CONTROL_NONE"
                 failed  == call_arg.fails = step.at
             IN  /\ log' = IF skipped \/ failed THEN log
                           ELSE Append(log, <<step.call, step.res>>)
                 /\ caller_pc' = IF failed THEN step.err
                                 ELSE IF k < Len(InitSteps)
                                      THEN InitSteps[k + 1].at
                                      ELSE "write_teardown"
                 /\ IF step.at = "uart_pattern"
                    THEN /\ pattern_det' = ~failed
                         /\ rx_intr' = FALSE
                    ELSE UNCHANGED <<pattern_det, rx_intr>>
    /\ UNCHANGED <<ret, tx>>
    /\ initUnchanged

(* The statement behind one error label; control falls through to the     *)
(* next label, and err_dte_mem returns NULL.                               *)
init_cleanup ==
    /\ hist.op = "esp_modem_dte_init"
    /\ \E k \in DOMAIN InitLabels :
          /\ caller_pc = InitLabels[k].at
          /\ IF k < Len(InitLabels)
             THEN /\ log' = Append(log, <<InitLabels[k].call,
                                          InitLabels[k].res>>)
                  /\ caller_pc' = InitLabels[k + 1].at
                  /\ ret' = ret
             ELSE /\ log' = log
                  /\ caller_pc' = "idle"
                  /\ ret' = NULL
          /\ pattern_det' = IF InitLabels[k].at = "err_eloop" THEN FALSE
                            ELSE pattern_det
    /\ UNCHANGED <<tx, rx_intr>>
    /\ initUnchanged

(* The end of a successful init: the teardown sequence is written and the  *)
(* handle returned.                                                        *)
init_return ==
    /\ hist.op = "esp_modem_dte_init"
    /\ caller_pc = "write_teardown"
    /\ tx' = tx \o InitTeardown
    /\ ret' = "dte"
    /\ caller_pc' = "idle"
    /\ UNCHANGED <<log, pattern_det, rx_intr>>
    /\ initUnchanged

NextInit == init_step \/ init_cleanup \/ init_return

SpecInit == InitInit /\ [][NextInit]_vars

AcquireCalls == {"calloc", "uart_driver_install", "esp_event_loop_create",
                 "xSemaphoreCreateBinary", "xTaskCreate"}
ReleaseCalls == {"free", "uart_driver_delete", "esp_event_loop_delete",
                 "vSemaphoreDelete", "vTaskDelete"}

(* The resources acquired and not released by the calls recorded in l. *)
Held(l) ==
    {l[i][2] : i \in {j \in DOMAIN l : l[j][1] \in AcquireCalls}}
        \ {l[i][2] : i \in {j \in DOMAIN l : l[j][1] \in ReleaseCalls}}

(* C26: when a step of esp_modem_dte_init fails, init returns NULL and     *)
(* every resource acquired before that step (DTE object, buffer, UART      *)
(* driver, event loop, semaphore) has been released.                       *)
C26_InitFailureReleasesAll ==
    (caller_pc = "idle" /\ call_arg.fails # "none")
        => (ret = NULL /\ Held(log) = {})

-----------------------------------------------------------------------------
(* Raw PPP mode: the caller switches from Command mode to PPP mode, the    *)
(* modem sends unframed PPP frames, the reader handles the DATA events.    *)
(* The fair specification lets no enabled step wait forever.               *)

\* an LCP packet between two PPP flags
PppRaw == <<126, 255, 3, 192, 33, 126>>
\* a compressed-header IP packet between two PPP flags
PppIp == <<126, 33, 69, 126>>

InitPpp ==
    /\ InitDte
    /\ mode = "MODEM_COMMAND_MODE"
    /\ InitUart
    /\ call_arg = NULL
    /\ handle_line = NULL
    /\ handle_cmux_frame = NULL
    /\ receive_cb = "handler"
    /\ env = [hl |-> "ok_done", hcf |-> "ok_done", heap |-> <<>>]
    /\ wire = <<>>
    /\ hist = [elements |-> <<>>, stream |-> <<>>, delivered |-> 0,
               handle_line0 |-> NULL, handle_cmux_frame0 |-> NULL,
               whole |-> FALSE, done_in_call |-> FALSE, sends |-> 0,
               rx |-> 0, op |-> NULL, hl_at_call |-> NULL,
               timed_out |-> FALSE, late_done |-> FALSE,
               budget |-> 1, calls |-> <<>>]

EnterPpp == \E swm \in {ESP_OK, ESP_FAIL} : change_mode("MODEM_PPP_MODE", swm)

PppEmit == mode = "MODEM_PPP_MODE" /\ \E el \in {PppRaw, PppIp} : ModemEmit(el)

PppData == \E n \in 1..(2 * Len(PppRaw)) : UartData(n)

NextPpp == EnterPpp \/ PppEmit \/ PppData

SpecPpp == InitPpp /\ [][NextPpp]_vars

SpecPppFair == SpecPpp /\ WF_vars(PppEmit) /\ WF_vars(PppData)

ReceiveCbCalled == \E i \in DOMAIN log : log[i][1] = "receive_cb"

(* C28: in PPP mode entered from Command mode, bytes that arrive on the    *)
(* UART and do not start with F9 are eventually passed to receive_cb.      *)
C28_RawPppDelivered ==
    (mode = "MODEM_PPP_MODE" /\ hist.delivered > 0) ~> ReceiveCbCalled

(* C29: buffer_len never exceeds the capacity of the reassembly buffer.    *)
C29_BufferLenWithinCapacity == buffer_len <= line_buffer_size

-----------------------------------------------------------------------------
(* Reader against a returning send *)

(* C30: whatever the interleaving of the reader's dispatch with a send     *)
(* that returns and clears the handler, the reader never calls through a   *)
(* handler pointer that is null at the moment of the call.                 *)
C30_NoNullHandlerCall == reader_pc # "crashed"

-----------------------------------------------------------------------------
(* The synchronous sends on a DTE with and without a bound DCE *)

InitBind ==
    /\ buffer = [i \in 0..(line_buffer_size - 1) |-> 0]
    /\ buffer_len = 0
    /\ process_sem = 0
    /\ reader_pc = "idle"
    /\ caller_pc = "idle"
    /\ ret = NULL
    /\ dce_state = "MODEM_STATE_SUCCESS"
    /\ tx = <<>>
    /\ allocated = 0
    /\ dce \in {NULL, "dce"}
    /\ dispatched = <<>>
    /\ log = <<>>
    /\ mode = "MODEM_COMMAND_MODE"
    /\ InitUart
    /\ call_arg = NULL
    /\ handle_line = NULL
    /\ handle_cmux_frame = NULL
    /\ receive_cb = NULL
    /\ env = [hl |-> "ok_done", hcf |-> "ok_done", heap |-> <<>>]
    /\ wire = <<>>
    /\ hist = [elements |-> <<>>, stream |-> <<>>, delivered |-> 0,
               handle_line0 |-> NULL, handle_cmux_frame0 |-> NULL,
               whole |-> FALSE, done_in_call |-> FALSE, sends |-> 0,
               rx |-> 0, op |-> NULL, hl_at_call |-> NULL,
               timed_out |-> FALSE, late_done |-> FALSE,
               budget |-> MaxCalls, calls |-> <<>>]

NextBind ==
    \/ \E command \in Commands : send_cmd_call(command)
    \/ send_cmd_return
    \/ \E dlci \in Dlcis : send_sabm_call(dlci)
    \/ send_sabm_return
    \/ \E command \in Commands : send_cmux_cmd_call(command)
    \/ send_cmux_cmd_return
    \/ process_cmd_done

SpecBind == InitBind /\ [][NextBind]_vars

(* C31: send_cmd, send_sabm and send_cmux_cmd on a DTE with no bound DCE   *)
(* return ESP_FAIL, write nothing to the UART and touch no field of a DCE. *)
C31_UnboundSendFails ==
    [][((\E op \in Sends : Called(op)) /\ dce = NULL)
         => /\ caller_pc' = "idle"
            /\ ret' = ESP_FAIL
            /\ tx' = tx
            /\ log' = log]_vars

-----------------------------------------------------------------------------
(* A mode change the DCE refuses *)

(* C32: when dce->set_working_mode fails in change_mode, whatever the      *)
(* target mode, change_mode returns ESP_FAIL and pattern detection and the *)
(* RX interrupt are as they were before the call, like the mode.           *)
C32_FailedSwitchKeepsDiscipline ==
    [][(Called("change_mode") /\ mode # call_arg'
          /\ NewLog = <<<<"set_working_mode", call_arg'>>>>
          /\ ret' = ESP_FAIL)
         => /\ mode' = mode
            /\ pattern_det' = pattern_det
            /\ rx_intr' = rx_intr]_vars

-----------------------------------------------------------------------------
(* Leaving CMUX mode and entering it again *)

MaxModeChanges == 3
MaxReentryRx == 3

(* How often dce->setup_cmux ran, that is how often CMUX mode was entered, *)
(* and how often a change to Command mode got as far as the DCE.           *)
CmuxEntries ==
    Cardinality({i \in DOMAIN log : log[i][1] = "setup_cmux"})
CommandAttempts ==
    Cardinality({i \in DOMAIN log :
                    log[i] = <<"set_working_mode", "MODEM_COMMAND_MODE">>})

(* esp_modem_dte_init has run and a DCE is bound; the application owns the *)
(* receive callback and no transaction is open.                            *)
InitReentry ==
    /\ InitDte
    /\ mode = "MODEM_COMMAND_MODE"
    /\ InitUart
    /\ call_arg = NULL
    /\ handle_line = NULL
    /\ handle_cmux_frame = NULL
    /\ receive_cb = "on_receive"
    /\ env = [hl |-> "ok_done", hcf |-> "ok_done", heap |-> <<>>]
    /\ wire = <<>>
    /\ hist = [elements |-> <<>>, stream |-> <<>>, delivered |-> 0,
               handle_line0 |-> NULL, handle_cmux_frame0 |-> NULL,
               whole |-> FALSE, done_in_call |-> FALSE, sends |-> 0,
               rx |-> 0, op |-> NULL, hl_at_call |-> NULL,
               timed_out |-> FALSE, late_done |-> FALSE,
               budget |-> MaxModeChanges, calls |-> <<>>]

(* The application changes the mode.  uart_event_task_entry handles a     *)
(* queued UART_PATTERN_DET event whatever the mode is by then, so the     *)
(* lines the modem sent in Command mode have been read to the buffer when *)
(* the first event of the CMUX session is handled.                        *)
ReentryChange ==
    \E new_mode \in {"MODEM_COMMAND_MODE", "MODEM_CMUX_MODE"},
       swm \in {ESP_OK, ESP_FAIL} :
          /\ new_mode = "MODEM_CMUX_MODE" => wire = <<>>
          /\ change_mode(new_mode, swm)

(* The modem answers in the mode it is in: lines in Command mode, a data   *)
(* frame on DLCI 1 in the first CMUX session, the UA of the control        *)
(* channel in a later one.                                                 *)
ReentryEmit ==
    /\ hist.rx < MaxReentryRx
    /\ \E el \in (IF mode = "MODEM_COMMAND_MODE" THEN {LineOk}
                   ELSE IF CmuxEntries = 1 THEN {FramePpp}
                   ELSE {FrameUa}) :
          /\ wire' = wire \o el
          /\ hist' = [hist EXCEPT !.rx = @ + 1,
                                  !.elements = Append(@, el),
                                  !.stream = @ \o el]
    /\ UNCHANGED <<buffer, buffer_len, handle_line, handle_cmux_frame,
                   receive_cb, process_sem, dce_state, mode, reader_pc,
                   caller_pc, ret, env, dispatched, log>>
    /\ UNCHANGED <<tx, call_arg, pattern_det, rx_intr, allocated, dce>>

(* The UART driver queues the events its interrupts are enabled for. *)
ReentryData == rx_intr /\ \E n \in 1..line_buffer_size : UartData(n)

ReentryPattern == pattern_det /\ UartPattern

NextReentry == ReentryChange \/ ReentryEmit \/ ReentryData \/ ReentryPattern

SpecReentry == InitReentry /\ [][NextReentry]_vars

(* The reader task handles every event the driver queues. *)
SpecReentryFair ==
    SpecReentry /\ WF_vars(ReentryData) /\ WF_vars(ReentryPattern)

(* The second CMUX session, entered from Command mode and not left. *)
Reentered ==
    /\ mode = "MODEM_CMUX_MODE"
    /\ rx_intr
    /\ CmuxEntries = 2
    /\ CommandAttempts = 1

FrameInWire ==
    \E i \in 1..Len(wire) :
        i + Len(FrameUa) - 1 <= Len(wire)
            /\ SubSeq(wire, i, i + Len(FrameUa) - 1) = FrameUa

Dispatched(f) == \E k \in DOMAIN dispatched : dispatched[k] = f

(* C33: after CMUX -> Command -> CMUX, with or without a partial frame     *)
(* pending when CMUX mode was left and lines read in Command mode, the     *)
(* first complete valid frame that arrives in the new CMUX session is      *)
(* dispatched (unless the session is left before the frame is read).       *)
C33_FrameAfterReentryDispatched ==
    (Reentered /\ FrameInWire) ~> (Dispatched(FrameUa) \/ ~Reentered)

-----------------------------------------------------------------------------
(* Starting and stopping a PPP session *)

MaxPppCalls == 3

esp_event_post_to(u, event_id) ==
    [u EXCEPT !.log = Append(@, <<event_id, NULL>>)]

(* The calls into the DCE: dce->define_pdp_context and dce->hang_up. *)
define_pdp_context(u) ==
    [u EXCEPT !.log = Append(@, <<"define_pdp_context", "IP">>)]
hang_up(u) == [u EXCEPT !.log = Append(@, <<"hang_up", NULL>>)]

(* dte->change_mode(dte, new_mode) as the session functions call it: the  *)
(* port and the record of calls after it, what it returned, and dce->mode. *)
ChangeMode(new_mode, swm, u) ==
    IF mode = new_mode
    THEN [u |-> u, ret |-> ESP_FAIL, mode |-> mode]
    ELSE [u |-> change_mode_switch(new_mode, swm, u), ret |-> swm,
          mode |-> IF swm = ESP_OK THEN new_mode ELSE mode]

(* One call of a session function: r is the result of its body. *)
SessionCall(op, r) ==
    /\ caller_pc = "idle"
    /\ SendsLeft
    /\ NoteCall(op)
    /\ ret' = r.ret
    /\ mode' = r.mode
    /\ pattern_det' = r.u.pattern_det
    /\ rx_intr' = r.u.rx_intr
    /\ wire' = r.u.wire
    /\ log' = r.u.log
    /\ UNCHANGED <<buffer, buffer_len, handle_line, handle_cmux_frame,
                   receive_cb, process_sem, dce_state, reader_pc, caller_pc,
                   env, tx, call_arg, dispatched, allocated, dce>>

SessionFail(u) == [u |-> u, ret |-> ESP_FAIL, mode |-> mode]

(* esp_modem_start_ppp: pdp is what dce->define_pdp_context returns. *)
esp_modem_start_ppp(pdp, swm) ==
    SessionCall("esp_modem_start_ppp",
        IF dce = NULL
        THEN SessionFail(ESP_LOGE(Uart, "DTE has not yet bind with DCE"))
        ELSE LET u1 == define_pdp_context(Uart)
                 c  == ChangeMode("MODEM_PPP_MODE", swm, u1)
             IN  IF pdp # ESP_OK
                 THEN SessionFail(ESP_LOGE(u1, "set MODEM APN failed"))
                 ELSE IF c.ret # ESP_OK
                 THEN [c EXCEPT !.u = ESP_LOGE(@, "enter ppp mode failed")]
                 ELSE [c EXCEPT !.u = esp_event_post_to(@,
                                          "ESP_MODEM_EVENT_PPP_START")])

(* esp_modem_start_cmux *)
esp_modem_start_cmux(swm) ==
    SessionCall("esp_modem_start_cmux",
        IF dce = NULL
        THEN SessionFail(ESP_LOGE(Uart, "DTE has not yet bind with DCE"))
        ELSE LET c == ChangeMode("MODEM_CMUX_MODE", swm, Uart)
             IN  IF c.ret # ESP_OK
                 THEN [c EXCEPT !.u = ESP_LOGE(@, "enter command mode failed")]
                 ELSE c)

(* esp_modem_stop_ppp: hup is what dce->hang_up returns. *)
esp_modem_stop_ppp(swm, hup) ==
    SessionCall("esp_modem_stop_ppp",
        IF dce = NULL
        THEN SessionFail(ESP_LOGE(Uart, "DTE has not yet bind with DCE"))
        ELSE LET u1 == esp_event_post_to(Uart, "ESP_MODEM_EVENT_PPP_STOP")
                 c  == ChangeMode("MODEM_COMMAND_MODE", swm, u1)
             IN  IF c.ret # ESP_OK
                 THEN [c EXCEPT !.u = ESP_LOGE(@, "enter command mode failed")]
                 ELSE IF hup # ESP_OK
                 THEN [c EXCEPT !.u = ESP_LOGE(hang_up(@), "hang up failed"),
                                !.ret = ESP_FAIL]
                 ELSE [c EXCEPT !.u = hang_up(@)])

(* esp_modem_dte_init has run; a DCE may or may not have been bound. *)
InitSession ==
    /\ buffer = [i \in 0..(line_buffer_size - 1) |-> 0]
    /\ buffer_len = 0
    /\ process_sem = 0
    /\ reader_pc = "idle"
    /\ caller_pc = "idle"
    /\ ret = NULL
    /\ dce_state = "MODEM_STATE_SUCCESS"
    /\ tx = <<>>
    /\ allocated = 0
    /\ dce \in {NULL, "dce"}
    /\ dispatched = <<>>
    /\ log = <<>>
    /\ mode = "MODEM_COMMAND_MODE"
    /\ InitUart
    /\ call_arg = NULL
    /\ handle_line = NULL
    /\ handle_cmux_frame = NULL
    /\ receive_cb = NULL
    /\ env = [hl |-> "ok_done", hcf |-> "ok_done", heap |-> <<>>]
    /\ wire = <<>>
    /\ hist = [elements |-> <<>>, stream |-> <<>>, delivered |-> 0,
               handle_line0 |-> NULL, handle_cmux_frame0 |-> NULL,
               whole |-> FALSE, done_in_call |-> FALSE, sends |-> 0,
               rx |-> 0, op |-> NULL, hl_at_call |-> NULL,
               timed_out |-> FALSE, late_done |-> FALSE,
               budget |-> MaxPppCalls, calls |-> <<>>]

NextSession ==
    \/ \E pdp \in {ESP_OK, ESP_FAIL}, swm \in {ESP_OK, ESP_FAIL} :
          esp_modem_start_ppp(pdp, swm)
    \/ \E swm \in {ESP_OK, ESP_FAIL} : esp_modem_start_cmux(swm)
    \/ \E swm \in {ESP_OK, ESP_FAIL}, hup \in {ESP_OK, ESP_FAIL} :
          esp_modem_stop_ppp(swm, hup)

SpecSession == InitSession /\ [][NextSession]_vars

Posted(event_id) == \E i \in DOMAIN NewLog : NewLog[i][1] = event_id

(* C34: ESP_MODEM_EVENT_PPP_START is posted only by an esp_modem_start_ppp *)
(* whose define_pdp_context and change_mode(PPP) succeeded, and            *)
(* ESP_MODEM_EVENT_PPP_STOP only by an esp_modem_stop_ppp whose            *)
(* change_mode(Command) succeeded.                                        *)
C34_EventOnlyOnSuccess ==
    [][/\ Posted("ESP_MODEM_EVENT_PPP_START")
            => /\ Called("esp_modem_start_ppp")
               /\ ~Posted("ESP_LOGE")
               /\ mode # "MODEM_PPP_MODE" /\ mode' = "MODEM_PPP_MODE"
       /\ Posted("ESP_MODEM_EVENT_PPP_STOP")
            => /\ Called("esp_modem_stop_ppp")
               /\ mode # "MODEM_COMMAND_MODE"
               /\ mode' = "MODEM_COMMAND_MODE"]_vars

====
